---- MODULE Spec2Model ----
(***************************************************************************)
(* A model of the AI Browser Testing Agent backend (src/backend).          *)
(*                                                                         *)
(* Components, each with its own specification over the shared variables:  *)
(*   SpecMonitor  - BrowserUseCloudService.monitor_task_stream, the        *)
(*                  poll / diff / forward loop behind the task stream      *)
(*   FairSpecMonitor - the same, with the generator's yields weakly fair   *)
(*   SpecLoop     - request handlers sharing the one event-loop thread     *)
(*   SpecGather   - create_parallel_flows: the asyncio.gather fan-out      *)
(*   SpecSession  - BrowserManager: the session and log maps under         *)
(*                  concurrent handlers                                    *)
(*   SpecConfig   - start-up (config.py, client set-up) and the endpoints  *)
(*                  that need a provider key                               *)
(*   SpecRemote   - the remote task client: create_task, get_task_status   *)
(*   SpecLlm      - flow generation: cleaning, parsing and filtering the   *)
(*                  model output                                           *)
(*   SpecCred     - the credential store of test_server.py                 *)
(*   SpecRoutes   - the local session routes and the generate-flows route, *)
(*                  one request at a time                                  *)
(*   SpecHealth   - the health checker: four probes under one gather and   *)
(*                  their aggregation                                      *)
(*   SpecStream   - the task stream endpoint around the monitor            *)
(*   SpecDemo, FairSpecDemo - the demo stream generate_stream_data         *)
(*   SpecAdmin    - the admin router and its calls to Convex               *)
(***************************************************************************)
EXTENDS Integers, Sequences, FiniteSets, TLC

(***************************************************************************)
(* Bounds of the model.                                                    *)
(***************************************************************************)
\* polls one stream may issue before the model stops exploring it
MaxTicks == 3
\* flows in one parallel-flows request
MaxFlows == 3
\* Agent objects the browser manager may construct
MaxAgents == 2
\* entries a session log may hold before the model stops adding to it
MaxLog == 3
\* requests the keyed endpoints answer before the model stops
MaxRequests == 2
\* invocations of the remote task client in a row
MaxCalls == 2
\* add requests the credential store serves before the model stops
MaxAdds == 3
\* tokens of a model output
MaxTokens == 4
\* items of the JSON list in a model output
MaxItems == 2
\* requests the admin router serves before the model stops
MaxAdminCalls == 2

(***************************************************************************)
(* Values.                                                                 *)
(***************************************************************************)
None == "None"
Missing == "MISSING"

\* opaque step records of the provider
StepVals == {"s1", "s2"}

\* the step lists the provider may answer with: lists of distinct steps
StepLists ==
    UNION { { s \in [1..n -> StepVals] : \A i, j \in 1..n : s[i] = s[j] => i = j }
            : n \in 0..Cardinality(StepVals) }

\* status strings of the provider; only three of them are terminal
ProviderStatuses == {"running", "finished", "failed", "stopped"}

Outputs == {None, "out"}

\* a 2xx answer of GET /task/{id}: a JSON object, any key of which may be absent
RawTaskData ==
    [status    : ProviderStatuses \cup {Missing},
     has_steps : BOOLEAN,
     steps     : StepLists,
     output    : Outputs]

\* what makes a poll raise: requests raises, raise_for_status raises,
\* response.json() raises
PollFailures == {"network_error", "http_error", "malformed_response"}

VARIABLES
    \* ---- task stream monitor (one generator instance) ----
    api_key,                \* BrowserUseCloudService.api_key is set
    pc,                     \* position of the generator
    previous_steps_count,   \* local of monitor_task_stream
    task_completed,         \* local of monitor_task_stream
    task_data,              \* local: the dict get_task_status returned
    step_idx,               \* position of `for step in new_steps`
    poll_error,             \* the exception caught by the loop, or None
    events,                 \* every value the generator has yielded, in order
    polls,                  \* history: what each poll returned
    tick_start,             \* history: Len(events) when the current poll began
    \* ---- the event loop and the request handlers running on it ----
    handler_site,           \* the outbound call each handler is about to make
    handler_state,          \* where each handler is
    \* ---- create_parallel_flows (one batch) ----
    flows_n,                \* len(flows) of the request
    child,                  \* where each create_single_task coroutine is
    gather_outer,           \* the future asyncio.gather returned
    raised_order,           \* history: the children that raised, in order
    propagated,             \* the child whose exception gather passed on
    parallel_state,         \* where the handler is
    parallel_response,      \* what the route answered
    \* ---- BrowserManager and the handlers using it ----
    active_agents,          \* BrowserManager.active_agents: session id -> agent
    session_logs,           \* BrowserManager.session_logs: session id -> entries
    next_agent,             \* the Agent objects constructed so far
    closed_agents,          \* the agents whose close() has completed
    proc,                   \* each handler: its call, its position, its result
    \* ---- start-up and the endpoints that need a provider key ----
    env,                    \* the environment variables of the process
    phase,                  \* how far start-up has come
    gemini_client,          \* gemini_client is not None
    responses,              \* history: the responses sent, in order
    \* ---- the remote task client (create_task, get_task_status) ----
    rc_op,                  \* the operation invoked: create_task or get_task_status
    rc_via,                 \* invoked through its route, or directly on the service
    rc_pc,                  \* where the invocation is
    rc_requests,            \* outbound HTTP requests the invocation has made
    rc_answer,              \* what the provider answered
    rc_result,              \* what the call returned or raised, and the route's answer
    rc_done,                \* invocations completed so far
    \* ---- the flow generator (LLMService.generate_flows and its route) ----
    llm_validates_strictly, \* the installed pydantic rejects an int for a str field
    llm_pc,                 \* where the generate_flows call is
    llm_text,               \* response.text of the model
    llm_result,             \* what generate_flows returned or raised
    llm_response,           \* the GenerateFlowsResponse of the route
    \* ---- the credential store (test_server.py) ----
    CREDENTIALS_STORE,      \* the dict of test_server.py, as its items in key order
    cred_adds,              \* history: the add requests served, in order
    cred_response,          \* the last response sent
    \* ---- the session and flow routes, one request at a time ----
    route_response,         \* the response the last request to a session or flow route got
    \* ---- the health checker (services/health_checker.py) ----
    health_config,          \* the environment config.py accepted when health_checker was imported
    health_pc,              \* where get_overall_health_status is
    health_checks,          \* the awaitables of asyncio.gather: what each probe gave, or pending
    health_network,         \* history: the services a probe has sent a request to
    health_report,          \* the dict get_overall_health_status returned
    \* ---- the task stream endpoint around the monitor ----
    stream_via,             \* which module serves GET /api/browser-cloud/task/{id}/stream
    frames,                 \* history: the frames handed to the StreamingResponse, in order
    stream_pc,              \* the generator given to the StreamingResponse: open, or how it ended
    \* ---- the demo stream (generate_stream_data) ----
    demo_pc,                \* where generate_stream_data is
    counter,                \* local of generate_stream_data
    demo_events,            \* history: the payloads generate_stream_data has yielded, in order
    \* ---- the admin router (routers/admin.py) ----
    admin_log               \* history: each admin request: its route, the Convex call made, the response sent

monVars == <<api_key, pc, previous_steps_count, task_completed, task_data,
             step_idx, poll_error, events, polls, tick_start>>

loopVars == <<handler_site, handler_state>>

gatherVars == <<flows_n, child, gather_outer, raised_order, propagated,
                parallel_state, parallel_response>>

sessVars == <<active_agents, session_logs, next_agent, closed_agents, proc>>

cfgVars == <<env, phase, gemini_client, responses>>

remoteVars == <<rc_op, rc_via, rc_pc, rc_requests, rc_answer, rc_result, rc_done>>

llmVars == <<llm_validates_strictly, llm_pc, llm_text, llm_result, llm_response>>

credVars == <<CREDENTIALS_STORE, cred_adds, cred_response>>

routeVars == <<route_response>>

healthVars == <<health_config, health_pc, health_checks, health_network, health_report>>

streamVars == <<stream_via, frames, stream_pc>>

demoVars == <<demo_pc, counter, demo_events>>

adminVars == <<admin_log>>

vars == <<monVars, loopVars, gatherVars, sessVars, cfgVars, remoteVars, llmVars, credVars, routeVars, healthVars, streamVars, demoVars, adminVars>>

\* what the task stream monitor leaves alone
notMonVars == <<loopVars, gatherVars, sessVars, cfgVars,
        remoteVars,
        llmVars,
        credVars,
        routeVars,
        healthVars,
        streamVars,
        demoVars,
        adminVars>>

\* what the event loop model leaves alone
notLoopVars == <<monVars, gatherVars, sessVars, cfgVars,
        remoteVars,
        llmVars,
        credVars,
        routeVars,
        healthVars,
        streamVars,
        demoVars,
        adminVars>>

\* what parallel flow creation leaves alone (the key is only read)
notGatherVars == <<monVars, loopVars, sessVars, cfgVars,
        remoteVars,
        llmVars,
        credVars,
        routeVars,
        healthVars,
        streamVars,
        demoVars,
        adminVars>>

\* what the browser manager leaves alone
notSessVars == <<monVars, loopVars, gatherVars, cfgVars,
        remoteVars,
        llmVars,
        credVars,
        routeVars,
        healthVars,
        streamVars,
        demoVars,
        adminVars>>

\* what start-up and the keyed endpoints leave alone (they set the key)
notCfgVars == <<pc, previous_steps_count, task_completed, task_data, step_idx,
                poll_error, events, polls, tick_start, loopVars, gatherVars, sessVars,
        remoteVars,
        llmVars,
        credVars,
        routeVars,
        healthVars,
        streamVars,
        demoVars,
        adminVars>>

\* what the remote task client (create_task, get_task_status) leaves alone
notRemoteVars == <<monVars, loopVars, gatherVars, sessVars, cfgVars,
        llmVars,
        credVars,
        routeVars,
        healthVars,
        streamVars,
        demoVars,
        adminVars>>

\* what the flow generator (LLMService.generate_flows and its route) leaves alone
notLlmVars == <<monVars, loopVars, gatherVars, sessVars, cfgVars, remoteVars,
        credVars,
        routeVars,
        healthVars,
        streamVars,
        demoVars,
        adminVars>>

\* what the credential store (test_server.py) leaves alone
notCredVars == <<monVars, loopVars, gatherVars, sessVars, cfgVars, remoteVars, llmVars,
        routeVars,
        healthVars,
        streamVars,
        demoVars,
        adminVars>>

\* what the session and flow routes leave alone
notRouteVars == <<monVars, loopVars, gatherVars, sessVars, cfgVars, remoteVars, llmVars, credVars,
        healthVars,
        streamVars,
        demoVars,
        adminVars>>

\* what the routes and the manager under them both leave alone
notSessRouteVars == <<monVars, loopVars, gatherVars, cfgVars, remoteVars, llmVars, credVars,
        healthVars,
        streamVars,
        demoVars,
        adminVars>>

\* what the health checker (services/health_checker.py) leaves alone
notHealthVars == <<monVars, loopVars, gatherVars, sessVars, cfgVars, remoteVars, llmVars, credVars, routeVars,
        streamVars,
        demoVars,
        adminVars>>

\* what the task stream endpoint around the monitor leaves alone
notStreamVars == <<monVars, loopVars, gatherVars, sessVars, cfgVars, remoteVars, llmVars, credVars, routeVars, healthVars,
        demoVars,
        adminVars>>

\* what the stream endpoint and the monitor under it both leave alone
notMonStreamVars == <<loopVars, gatherVars, sessVars, cfgVars, remoteVars, llmVars, credVars, routeVars, healthVars,
        demoVars,
        adminVars>>

\* what the demo stream (generate_stream_data) leaves alone
notDemoVars == <<monVars, loopVars, gatherVars, sessVars, cfgVars, remoteVars, llmVars, credVars, routeVars, healthVars, streamVars,
        adminVars>>

\* what the admin router (routers/admin.py) leaves alone
notAdminVars == <<monVars, loopVars, gatherVars, sessVars, cfgVars, remoteVars, llmVars, credVars, routeVars, healthVars, streamVars, demoVars>>

(***************************************************************************)
(* The event loop: every handler is a coroutine on one loop thread.  A     *)
(* coroutine runs until it awaits; a call made directly with `requests`    *)
(* keeps the loop thread until the provider answers.                       *)
(***************************************************************************)
Handlers == {"h1", "h2"}

\* await loop.run_in_executor(None, lambda: requests.post/get(...))
ExecutorSites ==
    {"service.create_task", "service.get_task_status", "main.create_single_task"}

\* await client.aio.models.generate_content(...), aiohttp sessions
NativeAsyncSites == {"llm.generate_content", "health_checker.aiohttp"}

\* requests.post/get(...) called in the coroutine itself
DirectSites ==
    {"main.create_browser_cloud_task", "main.get_browser_cloud_task_status",
     "main.generate_task_stream", "streaming.generate_browser_task_stream",
     "admin.call_convex_function"}

CallSites == ExecutorSites \cup NativeAsyncSites \cup DirectSites

\* does the loop thread itself sit in the call?
HoldsLoop(site) == site \in DirectSites

\* the loop thread is inside some handler's outbound call
LoopBusy == \E h \in Handlers : handler_state[h] = "in_call_on_loop"

LoopStart ==
    /\ handler_site = [h \in Handlers |-> None]
    /\ handler_state = [h \in Handlers |-> "idle"]

\* a request arrives and its handler is scheduled
Accept(h, site) ==
    /\ handler_state[h] = "idle"
    /\ handler_site' = [handler_site EXCEPT ![h] = site]
    /\ handler_state' = [handler_state EXCEPT ![h] = "ready"]
    /\ UNCHANGED notLoopVars

\* the loop runs the handler up to its outbound call
RunToCall(h) ==
    /\ handler_state[h] = "ready"
    /\ ~LoopBusy
    /\ handler_state' = [handler_state EXCEPT
           ![h] = IF HoldsLoop(handler_site[h]) THEN "in_call_on_loop" ELSE "suspended"]
    /\ UNCHANGED <<handler_site, notLoopVars>>

\* the provider answers (or the call fails): a call made on the loop thread
\* returns into the handler, which runs on to its response; an awaited call
\* makes the handler ready to be resumed
ProviderAnswers(h) ==
    /\ handler_state[h] \in {"in_call_on_loop", "suspended"}
    /\ handler_state' = [handler_state EXCEPT
           ![h] = IF handler_state[h] = "in_call_on_loop" THEN "responded" ELSE "resumable"]
    /\ UNCHANGED <<handler_site, notLoopVars>>

\* the loop resumes the handler after its await
Resume(h) ==
    /\ handler_state[h] = "resumable"
    /\ ~LoopBusy
    /\ handler_state' = [handler_state EXCEPT ![h] = "responded"]
    /\ UNCHANGED <<handler_site, notLoopVars>>

\* the response is sent
Respond(h) ==
    /\ handler_state[h] = "responded"
    /\ handler_state' = [handler_state EXCEPT ![h] = "idle"]
    /\ handler_site' = [handler_site EXCEPT ![h] = None]
    /\ UNCHANGED notLoopVars

\* the steps the loop itself gives a handler
HandlerStep(h) == RunToCall(h) \/ Resume(h)

NextLoop ==
    \/ \E h \in Handlers, site \in CallSites : Accept(h, site)
    \/ \E h \in Handlers : RunToCall(h)
    \/ \E h \in Handlers : ProviderAnswers(h)
    \/ \E h \in Handlers : Resume(h)
    \/ \E h \in Handlers : Respond(h)

(***************************************************************************)
(* BrowserManager (browser_service.py): the process-wide active-session    *)
(* map and session-log map, and the handlers that run on them.  A handler  *)
(* is atomic between two awaits.                                           *)
(***************************************************************************)
SessionIds == {"s1"}
Procs == {"p1", "p2"}

\* the operations that await an Agent.run()
RunOps == {"navigate", "click", "type"}

LogEntry(action, status) == [action |-> action, status |-> status]

NoResult == [kind |-> "none", cause |-> None, total_actions |-> 0]
Result(kind, cause, n) == [kind |-> kind, cause |-> cause, total_actions |-> n]

IdleProc == [op |-> None, sid |-> None, pc |-> "idle", agent |-> 0, result |-> NoResult]

\* BrowserManager.__init__
SessionStart ==
    /\ active_agents = <<>>
    /\ session_logs = <<>>
    /\ next_agent = 0
    /\ closed_agents = {}
    /\ proc = [p \in Procs |-> IdleProc]

\* `session_id in self.active_agents`
IsActive(sid) == sid \in DOMAIN active_agents

\* (mutant) d.setdefault(k, v): a key already there keeps its value
DictSet_setdefault(d, k, v) == IF k \in DOMAIN d THEN d ELSE [x \in DOMAIN d \cup {k} |-> IF x = k THEN v ELSE d[x]]

\* d[k] = v for a dict d
DictSet(d, k, v) == [x \in DOMAIN d \cup {k} |-> IF x = k THEN v ELSE d[x]]

\* (mutant) the key is left in place
DictDel_keeps(d, k) == d

\* del d[k]
DictDel(d, k) == [x \in DOMAIN d \ {k} |-> d[x]]

\* get_session_logs: self.session_logs.get(session_id, [])
get_session_logs(sid) == IF sid \in DOMAIN session_logs THEN session_logs[sid] ELSE <<>>

\* get_active_sessions
get_active_sessions == DOMAIN active_agents

\* (mutant) a status that takes every id for active
get_session_status_active(sid) ==
    [status |-> "active", total_actions |-> Len(get_session_logs(sid))]

\* get_session_status
get_session_status(sid) ==
    IF ~IsActive(sid)
       THEN [status |-> "not_found", total_actions |-> 0]
       ELSE [status |-> "active", total_actions |-> Len(get_session_logs(sid))]

Returned(p, res) == [proc[p] EXCEPT !.pc = "returned", !.result = res]

\* create_session: no await inside, so one step.  Agent(...) may raise, and
\* then nothing is stored.
CreateSession(p, sid, ok) ==
    /\ proc[p].pc = "idle"
    /\ next_agent < MaxAgents
    /\ IF ok
          THEN /\ active_agents' = DictSet(active_agents, sid, next_agent + 1)
               /\ session_logs' =
                     DictSet(session_logs, sid, <<LogEntry("session_created", "success")>>)
               /\ next_agent' = next_agent + 1
               /\ proc' = [proc EXCEPT ![p] =
                     [op |-> "create", sid |-> sid, pc |-> "returned", agent |-> next_agent + 1,
                      result |-> Result("created", None, 0)]]
          ELSE /\ proc' = [proc EXCEPT ![p] =
                     [op |-> "create", sid |-> sid, pc |-> "returned", agent |-> 0,
                      result |-> Result("RuntimeError", "Agent", 0)]]
               /\ UNCHANGED <<active_agents, session_logs, next_agent>>
    /\ UNCHANGED <<closed_agents, notSessVars>>

\* navigate_to_url / click_element / type_text up to `await ..._agent.run()`
BeginRun(p, op, sid) ==
    /\ proc[p].pc = "idle"
    /\ IF ~IsActive(sid)
          THEN proc' = [proc EXCEPT ![p] =
                  [op |-> op, sid |-> sid, pc |-> "returned", agent |-> 0,
                   result |-> Result("ValueError", "not found", 0)]]
          ELSE proc' = [proc EXCEPT ![p] =
                  [op |-> op, sid |-> sid, pc |-> "await_run",
                   agent |-> active_agents[sid], result |-> NoResult]]
    /\ UNCHANGED <<active_agents, session_logs, next_agent, closed_agents, notSessVars>>

\* the rest of navigate_to_url / click_element / type_text: the run returned
\* (log a success entry) or raised (log an error entry, raise RuntimeError)
FinishRun(p, ok) ==
    /\ proc[p].pc = "await_run"
    /\ LET sid == proc[p].sid IN
         /\ Len(session_logs[sid]) < MaxLog
         /\ session_logs' = [session_logs EXCEPT ![sid] =
               Append(@, LogEntry(proc[p].op, IF ok THEN "success" ELSE "error"))]
    /\ proc' = [proc EXCEPT ![p] =
          Returned(p, IF ok THEN Result("success", None, 0)
                            ELSE Result("RuntimeError", "Agent", 0))]
    /\ UNCHANGED <<active_agents, next_agent, closed_agents, notSessVars>>

\* get_page_info: no await inside
GetPageInfo(p, sid) ==
    /\ proc[p].pc = "idle"
    /\ IF ~IsActive(sid)
          THEN /\ proc' = [proc EXCEPT ![p] =
                     [op |-> "get_page_info", sid |-> sid, pc |-> "returned", agent |-> 0,
                      result |-> Result("ValueError", "not found", 0)]]
               /\ UNCHANGED session_logs
          ELSE /\ Len(session_logs[sid]) < MaxLog
               /\ session_logs' = [session_logs EXCEPT ![sid] =
                     Append(@, LogEntry("get_page_info", "success"))]
               /\ proc' = [proc EXCEPT ![p] =
                     [op |-> "get_page_info", sid |-> sid, pc |-> "returned",
                      agent |-> active_agents[sid], result |-> Result("success", None, 0)]]
    /\ UNCHANGED <<active_agents, next_agent, closed_agents, notSessVars>>

\* close_session up to `await agent.close()`
BeginClose(p, sid) ==
    /\ proc[p].pc = "idle"
    /\ IF ~IsActive(sid)
          THEN proc' = [proc EXCEPT ![p] =
                  [op |-> "close", sid |-> sid, pc |-> "returned", agent |-> 0,
                   result |-> Result("ValueError", "not found", 0)]]
          ELSE proc' = [proc EXCEPT ![p] =
                  [op |-> "close", sid |-> sid, pc |-> "await_close",
                   agent |-> active_agents[sid], result |-> NoResult]]
    /\ UNCHANGED <<active_agents, session_logs, next_agent, closed_agents, notSessVars>>

\* `del self.active_agents[session_id]` succeeds only while the key is there
CloseCanDelete(sid) == IsActive(sid)

\* the rest of close_session.  If agent.close() raised: RuntimeError, nothing
\* changes.  Otherwise `del self.active_agents[session_id]`: a KeyError, if
\* the entry is gone, is caught by the same `except Exception` and raised as
\* RuntimeError; else the session_closed entry is logged.
FinishClose(p, ok) ==
    /\ proc[p].pc = "await_close"
    /\ LET sid == proc[p].sid IN
         IF ~ok
            THEN /\ proc' = [proc EXCEPT ![p] = Returned(p, Result("RuntimeError", "Agent", 0))]
                 /\ UNCHANGED <<active_agents, session_logs, closed_agents>>
            ELSE /\ closed_agents' = closed_agents \cup {proc[p].agent}
                 /\ IF ~CloseCanDelete(sid)
                       THEN /\ proc' = [proc EXCEPT ![p] =
                                  Returned(p, Result("RuntimeError", "KeyError", 0))]
                            /\ UNCHANGED <<active_agents, session_logs>>
                       ELSE /\ active_agents' = DictDel(active_agents, sid)
                            /\ session_logs' = [session_logs EXCEPT ![sid] =
                                  Append(@, LogEntry("session_closed", "success"))]
                            /\ proc' = [proc EXCEPT ![p] =
                                  Returned(p, Result("closed", None, Len(session_logs'[sid])))]
    /\ UNCHANGED <<next_agent, notSessVars>>

\* the handler's response is sent
Return(p) ==
    /\ proc[p].pc = "returned"
    /\ proc' = [proc EXCEPT ![p] = IdleProc]
    /\ UNCHANGED <<active_agents, session_logs, next_agent, closed_agents, notSessVars>>

NextSession ==
    \/ \E p \in Procs, sid \in SessionIds, ok \in BOOLEAN : CreateSession(p, sid, ok)
    \/ \E p \in Procs, op \in RunOps, sid \in SessionIds : BeginRun(p, op, sid)
    \/ \E p \in Procs, ok \in BOOLEAN : FinishRun(p, ok)
    \/ \E p \in Procs, sid \in SessionIds : GetPageInfo(p, sid)
    \/ \E p \in Procs, sid \in SessionIds : BeginClose(p, sid)
    \/ \E p \in Procs, ok \in BOOLEAN : FinishClose(p, ok)
    \/ \E p \in Procs : Return(p)

(***************************************************************************)
(* BrowserUseCloudService                                                  *)
(***************************************************************************)
\* is_available: bool(self.api_key)
is_available == api_key

(***************************************************************************)
(* BrowserUseCloudService.create_parallel_flows: asyncio.gather over one   *)
(* create_task coroutine per flow.                                         *)
(***************************************************************************)
FlowIds == 1..flows_n

\* create_parallel_flows ahead of any request
GatherStart ==
    /\ flows_n = 0
    /\ child = <<>>
    /\ gather_outer = "none"
    /\ raised_order = <<>>
    /\ propagated = 0
    /\ parallel_state = "idle"
    /\ parallel_response = None

\* (mutant) gather settles only when every child has finished, as it would
\* with the exceptions collected
gather_waits_for_all(outer, ch, i, outcome) ==
    IF outer # "pending" THEN outer
    ELSE IF \E j \in DOMAIN ch : ch[j] \in {"scheduled", "in_flight"} THEN "pending"
    ELSE IF \E j \in DOMAIN ch : ch[j] = "raised" THEN "exception"
    ELSE "result"

\* asyncio.gather(*coros) with return_exceptions left False: the outer future
\* takes the first exception as soon as a child raises, and the list of
\* results once every child has returned; ch is the children after child i
\* finished with `outcome`
gather_settles(outer, ch, i, outcome) ==
    IF outer # "pending" THEN outer
    ELSE IF outcome = "raised" THEN "exception"
    ELSE IF \A j \in DOMAIN ch : ch[j] = "ok" THEN "result"
    ELSE "pending"

\* POST /api/browser-cloud/parallel-flows with n flows: without a key the
\* route answers 503; otherwise gather wraps one create_single_task per flow
\* in a task and the handler awaits the outer future
CallParallelFlows(n) ==
    /\ parallel_state = "idle"
    /\ IF ~is_available
          THEN /\ parallel_state' = "responded"
               /\ parallel_response' = [http |-> 503, total_tasks |-> 0]
               /\ UNCHANGED <<flows_n, child, gather_outer>>
          ELSE /\ flows_n' = n
               /\ child' = [i \in 1..n |-> "scheduled"]
               /\ gather_outer' = IF n = 0 THEN "result" ELSE "pending"
               /\ parallel_state' = "awaiting"
               /\ UNCHANGED parallel_response
    /\ UNCHANGED <<raised_order, propagated, notGatherVars>>

\* the loop runs a child up to `await loop.run_in_executor(...)`: its
\* requests.post is now running in a worker thread; the children were
\* queued in flow order
ChildStart(i) ==
    /\ i \in FlowIds
    /\ child[i] = "scheduled"
    /\ \A j \in 1..(i - 1) : child[j] # "scheduled"
    /\ child' = [child EXCEPT ![i] = "in_flight"]
    /\ UNCHANGED <<flows_n, gather_outer, raised_order, propagated, parallel_state,
                   parallel_response, notGatherVars>>

\* a child's request ends: create_task returns the task or raises
\* RuntimeError("Task creation failed: ...").  The children's first turns
\* were queued before any completion can be, so all have started by now.
ChildReturns(i, outcome) ==
    /\ i \in FlowIds
    /\ child[i] = "in_flight"
    /\ \A j \in FlowIds : child[j] # "scheduled"
    /\ child' = [child EXCEPT ![i] = outcome]
    /\ gather_outer' = gather_settles(gather_outer, child', i, outcome)
    /\ raised_order' = IF outcome = "raised" THEN Append(raised_order, i) ELSE raised_order
    /\ propagated' = IF gather_outer = "pending" /\ gather_outer' = "exception"
                        THEN (IF outcome = "raised" THEN i ELSE raised_order[1])
                        ELSE propagated
    /\ UNCHANGED <<flows_n, parallel_state, parallel_response, notGatherVars>>

\* the handler resumes from `await asyncio.gather(...)`: with the results it
\* returns ParallelBrowserFlowResponse; with the exception it raises
\* RuntimeError("Parallel task creation failed: ..."), which the route turns
\* into a 500
HandlerResumes ==
    /\ parallel_state = "awaiting"
    /\ gather_outer \in {"result", "exception"}
    /\ parallel_state' = "responded"
    /\ parallel_response' =
          IF gather_outer = "result"
             THEN [http |-> 200, total_tasks |-> flows_n]
             ELSE [http |-> 500, total_tasks |-> 0]
    /\ UNCHANGED <<flows_n, child, gather_outer, raised_order, propagated, notGatherVars>>

NextGather ==
    \/ \E n \in 0..MaxFlows : CallParallelFlows(n)
    \/ \E i \in 1..MaxFlows : ChildStart(i)
    \/ \E i \in 1..MaxFlows, outcome \in {"ok", "raised"} : ChildReturns(i, outcome)
    \/ HandlerResumes

(***************************************************************************)
(* Start-up (config.py, the client set-up of main.py) and the endpoints    *)
(* that need a provider key.                                               *)
(***************************************************************************)
\* what the environment may hold for each variable
Environments ==
    [OPENAI_API_KEY      : {"absent", "invalid", "valid"},
     CONVEX_URL          : {"absent", "invalid", "valid"},
     BROWSER_USE_API_KEY : {"absent", "blank", "valid"},
     GEMINI_API_KEY      : {"absent", "valid"}]

\* OpenAIConfig.validate_api_key: `not v or not v.startswith('sk-')` raises
validate_openai_api_key(v) == v = "valid"

\* BrowserUseConfig.validate_api_key: `v and not v.strip()` raises
validate_browser_use_api_key(v) == v # "blank"

\* ConvexConfig.validate_deployment_url: `not v or not v.startswith('https://')` raises
validate_deployment_url(v) == v = "valid"

\* load_config: AppConfig(**config_data) validates every section; any
\* failure is raised as ValueError("Configuration validation failed: ...")
load_config(e) ==
    /\ validate_openai_api_key(e.OPENAI_API_KEY)
    /\ validate_browser_use_api_key(e.BROWSER_USE_API_KEY)
    /\ validate_deployment_url(e.CONVEX_URL)

\* a process that is up, for the models that start from there; the
\* environment agrees with the key the service holds
ConfigServing ==
    /\ env = [OPENAI_API_KEY |-> "valid", CONVEX_URL |-> "valid",
              BROWSER_USE_API_KEY |-> IF api_key THEN "valid" ELSE "absent",
              GEMINI_API_KEY |-> "valid"]
    /\ phase = "serving"
    /\ gemini_client = TRUE
    /\ responses = <<>>

\* the process before anything is loaded
ConfigStart ==
    /\ env \in Environments
    /\ phase = "boot"
    /\ gemini_client = FALSE
    /\ responses = <<>>

\* importing config.py: `config = get_config()` runs at import, so a
\* ValueError from load_config ends the process
LoadConfig ==
    /\ phase = "boot"
    /\ phase' = IF load_config(env) THEN "config_loaded" ELSE "crashed"
    /\ UNCHANGED <<env, gemini_client, responses, api_key, notCfgVars>>

\* main.py: gemini_client = genai.Client(...) if GEMINI_API_KEY is set; a
\* constructor that raises leaves gemini_client None
InitGeminiClient(ctor_ok) ==
    /\ phase = "config_loaded"
    /\ gemini_client' = (env.GEMINI_API_KEY # "absent" /\ ctor_ok)
    /\ phase' = "gemini_done"
    /\ UNCHANGED <<env, responses, api_key, notCfgVars>>

\* main.py: BROWSER_USE_API_KEY = os.getenv("BROWSER_USE_API_KEY", ""); the
\* endpoints test the key itself (bool of the string)
InitBrowserUseClient ==
    /\ phase = "gemini_done"
    /\ api_key' = (env.BROWSER_USE_API_KEY # "absent")
    /\ phase' = "serving"
    /\ UNCHANGED <<env, gemini_client, responses, notCfgVars>>

\* LLMService.is_available / `if not gemini_client`
llm_is_available == gemini_client

Response(endpoint, http, body_status, outbound) ==
    [endpoint |-> endpoint, http |-> http, body_status |-> body_status,
     outbound |-> outbound]

CanServe == phase = "serving" /\ Len(responses) < MaxRequests

\* (mutant) the LLM endpoint answers a missing client like the browser ones
LlmUnavailable503 == Response("generate-flows", 503, None, 0)

\* generate_flows without a client: a GenerateFlowsResponse with no flows and
\* status "error", sent as an ordinary (200) response
LlmUnavailable == Response("generate-flows", 200, "error", 0)

\* POST /api/browser-cloud/create-task
CreateBrowserCloudTask(provider_ok) ==
    /\ CanServe
    /\ responses' = Append(responses,
          IF ~is_available THEN Response("create-task", 503, None, 0)
          ELSE IF provider_ok THEN Response("create-task", 200, "started", 1)
          ELSE Response("create-task", 500, None, 1))
    /\ UNCHANGED <<env, phase, gemini_client, api_key, notCfgVars>>

\* GET /api/browser-cloud/task/{task_id}: every failure is answered 404
GetBrowserCloudTaskStatus(provider_ok) ==
    /\ CanServe
    /\ responses' = Append(responses,
          IF ~is_available THEN Response("task-status", 503, None, 0)
          ELSE IF provider_ok THEN Response("task-status", 200, "running", 1)
          ELSE Response("task-status", 404, None, 1))
    /\ UNCHANGED <<env, phase, gemini_client, api_key, notCfgVars>>

\* POST /api/browser-cloud/parallel-flows with n flows
CreateParallelBrowserFlows(n, provider_ok) ==
    /\ CanServe
    /\ responses' = Append(responses,
          IF ~is_available THEN Response("parallel-flows", 503, None, 0)
          ELSE IF provider_ok THEN Response("parallel-flows", 200, None, n)
          ELSE Response("parallel-flows", 500, None, n))
    /\ UNCHANGED <<env, phase, gemini_client, api_key, notCfgVars>>

\* GET /api/browser-cloud/task/{task_id}/stream: the stream starts with a poll
StreamBrowserTaskLogs ==
    /\ CanServe
    /\ responses' = Append(responses,
          IF ~is_available THEN Response("stream", 503, None, 0)
          ELSE Response("stream", 200, None, 1))
    /\ UNCHANGED <<env, phase, gemini_client, api_key, notCfgVars>>

\* POST /api/generate-flows: every outcome is a GenerateFlowsResponse
GenerateFlows(llm_ok) ==
    /\ CanServe
    /\ responses' = Append(responses,
          IF ~llm_is_available THEN LlmUnavailable
          ELSE IF llm_ok THEN Response("generate-flows", 200, "success", 1)
          ELSE Response("generate-flows", 200, "error", 1))
    /\ UNCHANGED <<env, phase, gemini_client, api_key, notCfgVars>>

NextConfig ==
    \/ LoadConfig
    \/ \E ctor_ok \in BOOLEAN : InitGeminiClient(ctor_ok)
    \/ InitBrowserUseClient
    \/ \E provider_ok \in BOOLEAN : CreateBrowserCloudTask(provider_ok)
    \/ \E provider_ok \in BOOLEAN : GetBrowserCloudTaskStatus(provider_ok)
    \/ \E n \in 1..MaxFlows, provider_ok \in BOOLEAN : CreateParallelBrowserFlows(n, provider_ok)
    \/ StreamBrowserTaskLogs
    \/ \E llm_ok \in BOOLEAN : GenerateFlows(llm_ok)

\* get_task_status: the dict built from the provider's JSON; an absent status
\* reads "unknown", an absent step list reads []
get_task_status(raw) ==
    LET steps == IF raw.has_steps THEN raw.steps ELSE <<>>
    IN  [status      |-> IF raw.status = Missing THEN "unknown" ELSE raw.status,
         steps_count |-> Len(steps),
         done_output |-> raw.output,
         steps       |-> steps]

\* (mutant) "stopped" is not taken for a terminal status
TerminalStatusesNoStopped == {"finished", "failed"}

\* the statuses on which monitor_task_stream completes
TerminalStatuses == {"finished", "failed", "stopped"}

NoTaskData == [status |-> None, steps_count |-> 0, done_output |-> None, steps |-> <<>>]

\* the events monitor_task_stream yields
step_data(step) == [type |-> "step", step |-> step]
status_data(td) == [type |-> "status", status |-> td.status, steps_count |-> Len(td.steps)]
final_data(td) == [type |-> "completion", status |-> td.status, output |-> td.done_output]
error_data(e) == [type |-> "error", error |-> e]

\* (mutant) every step of the list is taken, seen before or not
new_steps_from_start(current_steps, prev) == current_steps

\* (mutant) the slice starts one step early
new_stepsOffByOne(current_steps, prev) ==
    SubSeq(current_steps, IF prev > 0 THEN prev ELSE 1, Len(current_steps))

\* new_steps = current_steps[previous_steps_count:]
new_steps(current_steps, prev) ==
    SubSeq(current_steps, prev + 1, Len(current_steps))

\* (mutant) the comparison only counts once a step was seen before
HasNewStepsAfterFirst(current_steps, prev) == prev > 0 /\ Len(current_steps) > prev

\* `if len(current_steps) > previous_steps_count`
HasNewSteps(current_steps, prev) == Len(current_steps) > prev

\* the monitor before any stream is requested
MonitorStart ==
    /\ pc = "init"
    /\ previous_steps_count = 0
    /\ task_completed = FALSE
    /\ task_data = NoTaskData
    /\ step_idx = 0
    /\ poll_error = None
    /\ events = <<>>
    /\ polls = <<>>
    /\ tick_start = 0

\* filler for a task_data that was never read
NoRaw == [status |-> Missing, has_steps |-> FALSE, steps |-> <<>>, output |-> None]

\* no answer received
NoAnswer ==
    [kind |-> None, code |-> 0, is_json |-> FALSE, has_id |-> FALSE,
     id |-> None, data |-> NoRaw]

\* no BrowserCloudTaskResponse built
NoTask == [task_id |-> None, session_id |-> None, live_url |-> None, status |-> None]

\* nothing returned or raised yet
NoOutcome ==
    [kind |-> "none", exc |-> None, message |-> None, cause |-> None,
     task |-> NoTask, snapshot |-> NoTaskData, http |-> 0]

\* the service between two invocations: it keeps nothing but its key
RemoteStart ==
    /\ rc_op = None
    /\ rc_via = None
    /\ rc_pc = "idle"
    /\ rc_requests = 0
    /\ rc_answer = NoAnswer
    /\ rc_result = NoOutcome
    /\ rc_done = 0

\* a JSON document that is never read
NoDoc == [is_list |-> FALSE, items |-> <<>>]

\* no model output
NoText == [tokens |-> <<>>, doc |-> NoDoc]

\* generate_flows has neither returned nor raised
NoFlowsResult == [kind |-> "none", exc |-> None, message |-> None, flows |-> <<>>]

\* no GenerateFlowsResponse sent
NoFlowsResponse ==
    [sent |-> FALSE, status |-> None, message |-> None, detail |-> None, flows |-> <<>>]

\* the flow generator before a call
LlmStart ==
    /\ llm_validates_strictly = FALSE
    /\ llm_pc = "idle"
    /\ llm_text = NoText
    /\ llm_result = NoFlowsResult
    /\ llm_response = NoFlowsResponse

\* no response sent by the credentials API yet
NoCredResponse ==
    [route |-> None, status |-> None, http |-> 0, domain |-> None,
     credentials_count |-> 0, domains |-> <<>>, total_domains |-> 0]

\* CREDENTIALS_STORE: Dict[str, Dict[str, str]] = {}
CredStart ==
    /\ CREDENTIALS_STORE = <<>>
    /\ cred_adds = <<>>
    /\ cred_response = NoCredResponse

\* no request served yet
NoRouteResponse ==
    [route |-> None, sid |-> None, status |-> None, has_timestamp |-> FALSE,
     raised |-> None, error |-> None, escaped |-> FALSE, total |-> 0, flows |-> <<>>]

RouteStart == route_response = NoRouteResponse

\* HealthStatus
HEALTHY == "healthy"
UNHEALTHY == "unhealthy"
DEGRADED == "degraded"
UNKNOWN == "unknown"

\* service_names of check_all_services, in the order of the gather arguments
service_names == <<"fastapi", "openai", "browser-use-cloud", "convex">>

\* a probe that has not finished yet
PendingProbe == [kind |-> "pending", status |-> None, error |-> None]

\* no report returned yet
NoReport ==
    [overall_status |-> None, services |-> <<>>, total_services |-> 0,
     healthy |-> 0, degraded |-> 0, unhealthy |-> 0, unknown |-> 0]

\* health_checker = HealthChecker() at import, no call made yet; the keys of
\* the environment have passed load_config
HealthStart ==
    /\ health_config = [OPENAI_API_KEY |-> "valid", CONVEX_URL |-> "valid",
                        BROWSER_USE_API_KEY |-> "valid", GEMINI_API_KEY |-> "valid"]
    /\ health_pc = "idle"
    /\ health_checks = [i \in 1..Len(service_names) |-> PendingProbe]
    /\ health_network = {}
    /\ health_report = NoReport

\* the two implementations of the task stream endpoint
StreamVias == {"routes", "main"}

\* no stream requested
StreamStart ==
    /\ stream_via = "routes"
    /\ frames = <<>>
    /\ stream_pc = "open"

\* generate_stream_data not yet called
DemoStart ==
    /\ demo_pc = "init"
    /\ counter = 0
    /\ demo_events = <<>>

\* no admin request served yet
AdminStart == admin_log = <<>>

InitMonitor ==
    /\ api_key \in BOOLEAN
    /\ MonitorStart
    /\ LoopStart
    /\ GatherStart
    /\ SessionStart
    /\ ConfigServing
    /\ RemoteStart
    /\ LlmStart
    /\ CredStart
    /\ RouteStart
    /\ HealthStart
    /\ StreamStart
    /\ DemoStart
    /\ AdminStart

\* stream_browser_task_logs + the head of monitor_task_stream: without a key
\* the route answers 503 and no generator runs
StartStream ==
    /\ pc = "init"
    /\ pc' = IF is_available THEN "poll" ELSE "unavailable"
    /\ previous_steps_count' = 0
    /\ task_completed' = FALSE
    /\ UNCHANGED <<api_key, task_data, step_idx, poll_error, events, polls, tick_start>>
    /\ UNCHANGED notMonVars

\* where the generator goes after a successful poll
AfterPoll(td, prev) == IF HasNewSteps(td.steps, prev) THEN "steps" ELSE "status"

\* task_data = await self.get_task_status(task_id), answered by the provider
PollOk ==
    /\ pc = "poll"
    /\ ~task_completed
    /\ Len(polls) < MaxTicks
    /\ \E raw \in RawTaskData :
         LET td == get_task_status(raw) IN
         /\ task_data' = td
         /\ pc' = AfterPoll(td, previous_steps_count)
         /\ polls' = Append(polls, [ok |-> TRUE, status |-> td.status, steps |-> td.steps])
    /\ step_idx' = 0
    /\ tick_start' = Len(events)
    /\ UNCHANGED <<api_key, previous_steps_count, task_completed, poll_error, events>>
    /\ UNCHANGED notMonVars

\* get_task_status raises (it wraps every failure in a RuntimeError)
PollRaises ==
    /\ pc = "poll"
    /\ ~task_completed
    /\ Len(polls) < MaxTicks
    /\ \E e \in PollFailures :
         /\ poll_error' = e
         /\ polls' = Append(polls, [ok |-> FALSE, status |-> e, steps |-> <<>>])
    /\ pc' = "error"
    /\ tick_start' = Len(events)
    /\ UNCHANGED <<api_key, previous_steps_count, task_completed, task_data, step_idx, events>>
    /\ UNCHANGED notMonVars

\* one turn of `for step in new_steps: yield step_data`; after the last one
\* previous_steps_count = len(current_steps)
YieldStep ==
    /\ pc = "steps"
    /\ LET ns == new_steps(task_data.steps, previous_steps_count) IN
         /\ step_idx < Len(ns)
         /\ events' = Append(events, step_data(ns[step_idx + 1]))
         /\ IF step_idx + 1 = Len(ns)
               THEN /\ previous_steps_count' = Len(task_data.steps)
                    /\ step_idx' = 0
                    /\ pc' = "status"
               ELSE /\ step_idx' = step_idx + 1
                    /\ UNCHANGED <<previous_steps_count, pc>>
    /\ UNCHANGED <<api_key, task_completed, task_data, poll_error, polls, tick_start>>
    /\ UNCHANGED notMonVars

\* (mutant) the loop gives up after the first status event
AfterStatusGiveUp(status) == "completion"

\* where the generator goes after the status event
AfterStatus(status) == IF status \in TerminalStatuses THEN "completion" ELSE "sleep"

\* yield status_data
YieldStatus ==
    /\ pc = "status"
    /\ events' = Append(events, status_data(task_data))
    /\ pc' = AfterStatus(task_data.status)
    /\ UNCHANGED <<api_key, previous_steps_count, task_completed, task_data, step_idx,
                   poll_error, polls, tick_start>>
    /\ UNCHANGED notMonVars

\* yield final_data; task_completed = True; break
YieldCompletion ==
    /\ pc = "completion"
    /\ events' = Append(events, final_data(task_data))
    /\ task_completed' = TRUE
    /\ pc' = "done"
    /\ UNCHANGED <<api_key, previous_steps_count, task_data, step_idx, poll_error,
                   polls, tick_start>>
    /\ UNCHANGED notMonVars

\* await asyncio.sleep(2), then the next turn of the while loop
SleepTick ==
    /\ pc = "sleep"
    /\ pc' = "poll"
    /\ UNCHANGED <<api_key, previous_steps_count, task_completed, task_data, step_idx,
                   poll_error, events, polls, tick_start>>
    /\ UNCHANGED notMonVars

\* (mutant) the failed poll is retried
AfterErrorRetry == "poll"

\* where the generator goes after the error event
AfterError == "done"

\* except Exception as e: yield error_data; break
YieldError ==
    /\ pc = "error"
    /\ events' = Append(events, error_data(poll_error))
    /\ pc' = AfterError
    /\ UNCHANGED <<api_key, previous_steps_count, task_completed, task_data, step_idx,
                   poll_error, polls, tick_start>>
    /\ UNCHANGED notMonVars

\* the positions at which the generator is alive
Running == {"poll", "steps", "status", "completion", "sleep", "error"}

\* the client goes away and the transport tears the generator down
Disconnect ==
    /\ pc \in Running
    /\ pc' = "cancelled"
    /\ UNCHANGED <<api_key, previous_steps_count, task_completed, task_data, step_idx,
                   poll_error, events, polls, tick_start>>
    /\ UNCHANGED notMonVars

GeneratorStep ==
    \/ PollOk
    \/ PollRaises
    \/ YieldStep
    \/ YieldStatus
    \/ YieldCompletion
    \/ SleepTick
    \/ YieldError

NextMonitor ==
    \/ StartStream
    \/ GeneratorStep
    \/ Disconnect

SpecMonitor == InitMonitor /\ [][NextMonitor]_vars

\* the generator's own steps that follow a poll: resumed by the consumer of
\* the stream for as long as it is connected
YieldSteps ==
    \/ YieldStep
    \/ YieldStatus
    \/ YieldCompletion
    \/ SleepTick
    \/ YieldError

FairSpecMonitor == SpecMonitor /\ WF_vars(YieldSteps)

(***************************************************************************)
(* Task stream monitor: properties                                         *)
(***************************************************************************)
LastPoll == polls[Len(polls)]

\* the step count the poll before the current one showed (0 before any)
PrevSeen == IF Len(polls) <= 1 THEN 0 ELSE Len(polls[Len(polls) - 1].steps)

\* every successful poll shows at least as many steps as the one before
NonDecreasing ==
    \A k \in 2..Len(polls) :
        polls[k].ok => Len(polls[k].steps) >= Len(polls[k - 1].steps)

\* what the generator has yielded since the current poll began
TickEvents == SubSeq(events, tick_start + 1, Len(events))

IsPrefix(a, b) == Len(a) <= Len(b) /\ a = SubSeq(b, 1, Len(a))

CountType(evs, t) == Cardinality({i \in 1..Len(evs) : evs[i].type = t})

StepEvent(s) == [type |-> "step", step |-> s]
StatusEvent(st, n) == [type |-> "status", status |-> st, steps_count |-> n]
CompletionEvent(st, out) == [type |-> "completion", status |-> st, output |-> out]
ErrorEvent(e) == [type |-> "error", error |-> e]

ClaimTerminal == {"finished", "failed", "stopped"}

\* the steps of the last poll beyond the first n, one event each
StepEventsFrom(n) ==
    [i \in 1..(Len(LastPoll.steps) - n) |-> StepEvent(LastPoll.steps[n + i])]

\* a tick's events up to and including its status event
TickUpToStatus(n) ==
    StepEventsFrom(n) \o <<StatusEvent(LastPoll.status, Len(LastPoll.steps))>>

ExamplePolls ==
    <<[ok |-> TRUE, status |-> "running", steps |-> <<>>],
      [ok |-> TRUE, status |-> "running", steps |-> <<"s1">>],
      [ok |-> TRUE, status |-> "finished", steps |-> <<"s1", "s2">>]>>

\* C1: when the polls' step lists never get shorter, a tick yields exactly
\* (current count - previously seen count) step events, one per new step in
\* the provider's order, all of them before the tick's single status event;
\* and the polls [running, []], [running, [s1]], [finished, [s1, s2]] yield
\* status(running,0), step(s1), status(running,1), step(s2),
\* status(finished,2), completion(output), in that order.
C1_StepDeltaBeforeStatus ==
    /\ (polls # <<>> /\ LastPoll.ok /\ NonDecreasing) =>
          LET steps == StepEventsFrom(PrevSeen)
              full  == TickUpToStatus(PrevSeen)
          IN  /\ Len(steps) = Len(LastPoll.steps) - PrevSeen
              /\ pc = "steps" => IsPrefix(TickEvents, steps) /\ Len(TickEvents) < Len(steps)
              /\ pc = "status" => TickEvents = steps
              /\ pc \in {"sleep", "poll", "completion"} => TickEvents = full
              /\ pc = "done" => /\ Len(TickEvents) = Len(full) + 1
                                /\ IsPrefix(full, TickEvents)
              /\ pc = "cancelled" => \/ IsPrefix(TickEvents, full)
                                     \/ IsPrefix(full, TickEvents)
    /\ (pc = "done" /\ polls = ExamplePolls) =>
          events = <<StatusEvent("running", 0),
                     StepEvent("s1"), StatusEvent("running", 1),
                     StepEvent("s2"), StatusEvent("finished", 2),
                     CompletionEvent("finished", task_data.done_output)>>

C1_Witness == pc = "done" /\ polls = ExamplePolls /\ Len(events) = 6

\* a poll has returned a terminal status
TerminalPolled == polls # <<>> /\ LastPoll.ok /\ LastPoll.status \in ClaimTerminal

\* a poll has raised
PollFailed == polls # <<>> /\ ~LastPoll.ok

\* C2: once a poll returns finished, failed or stopped, the monitor yields
\* exactly one completion event, carrying that status and the output of that
\* poll, right after the tick's status event, and then halts: it never polls
\* or sleeps again and yields nothing after the completion event.
C2_CompletionThenHalt ==
    TerminalPolled =>
        /\ pc \in {"steps", "status", "completion", "done", "cancelled"}
        /\ CountType(events, "completion") = IF pc = "done" THEN 1 ELSE 0
        /\ CountType(events, "error") = 0
        /\ pc = "done" =>
              /\ events[Len(events)] =
                    CompletionEvent(LastPoll.status, task_data.done_output)
              /\ events[Len(events) - 1] =
                    StatusEvent(LastPoll.status, Len(LastPoll.steps))
              /\ tick_start < Len(events) - 1
              /\ task_completed
              /\ ~ENABLED NextMonitor

C2_Witness ==
    /\ pc = "done"
    /\ TerminalPolled
    /\ LastPoll.status = "stopped"
    /\ Len(polls) > 1
    /\ task_data.done_output = "out"

\* C3: a poll that raises yields exactly one error event and the loop halts
\* at once: the poll is not retried, no poll follows, and no status or
\* completion event follows the error event.
C3_ErrorThenHalt ==
    /\ PollFailed =>
          /\ pc \in {"error", "done", "cancelled"}
          /\ pc = "error" => TickEvents = <<>>
          /\ pc = "done" => TickEvents = <<ErrorEvent(LastPoll.status)>>
          /\ pc = "done" => ~ENABLED NextMonitor
          /\ Len(TickEvents) <= 1
          /\ CountType(events, "completion") = 0
    /\ CountType(events, "error") <= 1
    /\ \A i \in 1..Len(events) : events[i].type = "error" => i = Len(events)
    /\ \A k \in 1..Len(polls) : ~polls[k].ok => k = Len(polls)

C3_Witness ==
    /\ pc = "done"
    /\ PollFailed
    /\ Len(polls) > 1
    /\ CountType(events, "step") > 0
    /\ events[Len(events)] = ErrorEvent("malformed_response")

\* C4: when the very first poll shows a terminal status and a non-empty step
\* list, every step of the list is yielded as a step event, in the provider's
\* order, before the status event and the completion event.
C4_FirstPollTerminal ==
    (Len(polls) = 1 /\ TerminalPolled /\ LastPoll.steps # <<>>) =>
        /\ pc \in {"steps", "status", "completion", "done", "cancelled"}
        /\ pc \in {"status", "completion", "done"} =>
              IsPrefix(StepEventsFrom(0), events)
        /\ pc \in {"completion", "done"} => IsPrefix(TickUpToStatus(0), events)
        /\ pc = "done" =>
              events = TickUpToStatus(0)
                         \o <<CompletionEvent(LastPoll.status, task_data.done_output)>>

C4_Witness ==
    /\ Len(polls) = 1
    /\ TerminalPolled
    /\ LastPoll.steps = <<"s2", "s1">>
    /\ pc = "done"

\* every poll so far succeeded with a non-terminal status
AllNonTerminal ==
    \A k \in 1..Len(polls) : polls[k].ok /\ polls[k].status \notin ClaimTerminal

C5_HaltsOnlyOnTerminalOrFailure ==
    /\ pc = "done" => TerminalPolled \/ PollFailed
    /\ (AllNonTerminal /\ pc \notin {"init", "unavailable", "cancelled"}) =>
          /\ pc \in {"poll", "steps", "status", "sleep"}
          /\ pc = "sleep" => ENABLED SleepTick
          /\ pc = "poll" => (Len(polls) < MaxTicks => ENABLED PollOk)
          /\ CountType(events, "status") =
                IF pc \in {"poll", "sleep"} THEN Len(polls) ELSE Len(polls) - 1

\* C5: the loop halts by itself only when a poll returns a terminal status or
\* raises; while every poll succeeds with a non-terminal status it keeps
\* going, one poll and one status event per tick; and once a poll has
\* returned a terminal status or raised, the monitor eventually halts.
C5_HaltsOnlyWhenToldTo ==
    /\ []C5_HaltsOnlyOnTerminalOrFailure
    /\ (TerminalPolled \/ PollFailed) ~> (pc \in {"done", "cancelled"})

C5_Witness ==
    /\ Len(polls) = MaxTicks
    /\ AllNonTerminal
    /\ pc = "poll"
    /\ CountType(events, "status") = MaxTicks

(***************************************************************************)
(* Event loop: properties                                                  *)
(***************************************************************************)
InitLoop ==
    /\ api_key = TRUE
    /\ LoopStart
    /\ MonitorStart
    /\ GatherStart
    /\ SessionStart
    /\ ConfigServing
    /\ RemoteStart
    /\ LlmStart
    /\ CredStart
    /\ RouteStart
    /\ HealthStart
    /\ StreamStart
    /\ DemoStart
    /\ AdminStart

SpecLoop == InitLoop /\ [][NextLoop]_vars

\* C6: no outbound call stalls the loop: every call is awaited (natively
\* asynchronous or run in the executor), so while one handler waits for a
\* provider any other handler that is ready to run can take its step.
C6_LoopNeverStalls ==
    \A h, g \in Handlers :
        (/\ h # g
         /\ handler_state[h] \in {"in_call_on_loop", "suspended"}
         /\ handler_state[g] \in {"ready", "resumable"})
        => ENABLED HandlerStep(g)

(***************************************************************************)
(* Parallel flow creation: properties                                      *)
(***************************************************************************)
InitGather ==
    /\ api_key \in BOOLEAN
    /\ MonitorStart
    /\ LoopStart
    /\ GatherStart
    /\ SessionStart
    /\ ConfigServing
    /\ RemoteStart
    /\ LlmStart
    /\ CredStart
    /\ RouteStart
    /\ HealthStart
    /\ StreamStart
    /\ DemoStart
    /\ AdminStart

SpecGather == InitGather /\ [][NextGather]_vars

Finished(i) == child[i] \in {"ok", "raised"}

BatchAnswered == parallel_state = "responded" /\ parallel_response.http \in {200, 500}

\* C7 as claimed: the batch returns or fails only after all N calls have
\* finished, and a failure carries the first exception encountered.
C7_WaitsForAll ==
    BatchAnswered =>
        /\ \A i \in FlowIds : Finished(i)
        /\ parallel_response.http = 500 => propagated = raised_order[1]

\* C7, amended: the N calls are all started before any of them finishes; the
\* batch returns only after all N calls have returned; it fails as soon as
\* the first call raises, with that first exception, whether or not the
\* other calls have finished (they are neither awaited nor cancelled).
C7_FailsOnFirstException ==
    /\ \A i \in FlowIds : Finished(i) => \A j \in FlowIds : child[j] # "scheduled"
    /\ (raised_order # <<>>) =>
          /\ gather_outer = "exception"
          /\ propagated = raised_order[1]
          /\ child[propagated] = "raised"
          /\ parallel_state = "awaiting" => ENABLED HandlerResumes
    /\ (raised_order = <<>> /\ gather_outer = "result") =>
          \A i \in FlowIds : child[i] = "ok"
    /\ BatchAnswered =>
          /\ parallel_response.http = 200 =>
                /\ \A i \in FlowIds : child[i] = "ok"
                /\ parallel_response.total_tasks = flows_n
          /\ parallel_response.http = 500 => raised_order # <<>>
          /\ \A i \in FlowIds : child[i] = "in_flight" => ENABLED ChildReturns(i, "ok")

C7_Witness ==
    /\ BatchAnswered
    /\ parallel_response.http = 500
    /\ flows_n >= 3
    /\ \E i \in FlowIds : child[i] = "in_flight"
    /\ \E i \in FlowIds : child[i] = "ok"

(***************************************************************************)
(* Local browser sessions: properties                                      *)
(***************************************************************************)
InitSession ==
    /\ api_key = TRUE
    /\ MonitorStart
    /\ LoopStart
    /\ GatherStart
    /\ SessionStart
    /\ ConfigServing
    /\ RemoteStart
    /\ LlmStart
    /\ CredStart
    /\ RouteStart
    /\ HealthStart
    /\ StreamStart
    /\ DemoStart
    /\ AdminStart

SpecSession == InitSession /\ [][NextSession]_vars

\* C8: the shared maps need no lock: no membership check is separated from
\* the mutation that depends on it by an await, so no interleaving of
\* handlers ends in an unexpected failure: in particular no handler fails on
\* a key that was there when it checked.
C8_MapsSafeWithoutLock ==
    \A p \in Procs :
        proc[p].pc = "returned" => proc[p].result.cause # "KeyError"

(***************************************************************************)
(* Start-up and missing keys: properties                                   *)
(***************************************************************************)
InitConfig ==
    /\ api_key = FALSE
    /\ MonitorStart
    /\ LoopStart
    /\ GatherStart
    /\ SessionStart
    /\ ConfigStart
    /\ RemoteStart
    /\ LlmStart
    /\ CredStart
    /\ RouteStart
    /\ HealthStart
    /\ StreamStart
    /\ DemoStart
    /\ AdminStart

SpecConfig == InitConfig /\ [][NextConfig]_vars

BrowserCloudEndpoints == {"create-task", "task-status", "parallel-flows", "stream"}

\* the provider key an endpoint needs is absent from the environment
KeyAbsentFor(endpoint) ==
    IF endpoint \in BrowserCloudEndpoints
       THEN env.BROWSER_USE_API_KEY = "absent"
       ELSE env.GEMINI_API_KEY = "absent"

\* C9 as claimed: with the provider key absent, every endpoint of the
\* feature answers 503 and makes no outbound call.
C9_Absent503 ==
    \A i \in 1..Len(responses) :
        KeyAbsentFor(responses[i].endpoint) =>
            responses[i].http = 503 /\ responses[i].outbound = 0

\* C9, amended: with the provider key absent the four browser-cloud
\* endpoints answer 503, and generate-flows answers an ordinary response
\* whose body has status "error" (not a 503); none of them makes an
\* outbound call, and the process goes on serving.
C9_AbsentKeyDisablesFeature ==
    /\ \A i \in 1..Len(responses) :
          KeyAbsentFor(responses[i].endpoint) =>
              /\ responses[i].outbound = 0
              /\ responses[i].endpoint \in BrowserCloudEndpoints =>
                    responses[i].http = 503
              /\ responses[i].endpoint = "generate-flows" =>
                    responses[i].http = 200 /\ responses[i].body_status = "error"
    /\ responses # <<>> =>
          /\ phase = "serving"
          /\ Len(responses) < MaxRequests => ENABLED StreamBrowserTaskLogs

C9_Witness ==
    /\ env.BROWSER_USE_API_KEY = "absent"
    /\ env.GEMINI_API_KEY = "absent"
    /\ Len(responses) = 2
    /\ responses[1] = [endpoint |-> "generate-flows", http |-> 200,
                       body_status |-> "error", outbound |-> 0]
    /\ responses[2].endpoint = "stream"
    /\ responses[2].http = 503

\* C10: a missing or invalid key or URL is never fatal at start-up: whatever
\* the environment holds, loading the configuration and the clients does
\* not end the process.
C10_NeverFatalAtStartup == phase # "crashed"

(***************************************************************************)
(* The remote task client: BrowserUseCloudService.create_task and          *)
(* get_task_status, called directly or through their routes.               *)
(***************************************************************************)
\* ids the provider assigns
TaskIds == {"t1", "t2"}

\* status codes of the final response: success, a redirect that is not
\* followed, not found, server error
HttpCodes == {200, 302, 404, 500}

RemoteOps == {"create_task", "get_task_status"}

Vias == {"route", "service"}

\* what POST /run-task may come back with
CreateAnswers ==
    [kind : {"http"}, code : HttpCodes, is_json : {TRUE}, has_id : {TRUE},
     id : TaskIds, data : {NoRaw}]
    \cup [kind : {"http"}, code : HttpCodes, is_json : BOOLEAN, has_id : {FALSE},
          id : {None}, data : {NoRaw}]
    \cup {[NoAnswer EXCEPT !.kind = "network_error"]}

\* what GET /task/{id} may come back with
StatusAnswers ==
    [kind : {"http"}, code : HttpCodes, is_json : {TRUE}, has_id : {FALSE},
     id : {None}, data : RawTaskData]
    \cup [kind : {"http"}, code : HttpCodes, is_json : {FALSE}, has_id : {FALSE},
          id : {None}, data : {NoRaw}]
    \cup {[NoAnswer EXCEPT !.kind = "network_error"]}

AnswersOf(op) == IF op = "create_task" THEN CreateAnswers ELSE StatusAnswers

\* (mutant) raise_for_status that lets client errors through
raise_for_status_5xx_only(code) == code >= 500 /\ code < 600

\* requests.Response.raise_for_status: raises HTTPError for 4xx and 5xx only
raise_for_status(code) == code >= 400 /\ code < 600

\* the exception the try block of either method ends with, or None
FirstException(op, a) ==
    IF a.kind = "network_error" THEN "ConnectionError"
    ELSE IF raise_for_status(a.code) THEN "HTTPError"
    ELSE IF ~a.is_json THEN "JSONDecodeError"
    ELSE IF op = "create_task" /\ ~a.has_id THEN "KeyError"
    ELSE None

Raise(exc, message, cause) ==
    [NoOutcome EXCEPT !.kind = "raise", !.exc = exc, !.message = message,
                      !.cause = cause]

\* create_task after its key check
create_task(a) ==
    IF FirstException("create_task", a) # None
       THEN Raise("RuntimeError", "Task creation failed", FirstException("create_task", a))
       ELSE [NoOutcome EXCEPT !.kind = "return",
                !.task = [task_id |-> a.id, session_id |-> a.id,
                          live_url |-> None, status |-> "started"]]

\* get_task_status after its key check: every failure is re-raised with
\* the same message "Task not found or error: ..."
get_task_status_call(a) ==
    IF FirstException("get_task_status", a) # None
       THEN Raise("RuntimeError", "Task not found or error",
                  FirstException("get_task_status", a))
       ELSE [NoOutcome EXCEPT !.kind = "return", !.snapshot = get_task_status(a.data)]

\* both methods without a key
NotConfigured == Raise("RuntimeError", "Browser Use Cloud API key not configured", None)

\* the routes: except Exception -> HTTPException(500) for create-task,
\* HTTPException(404) for the task status
RouteFailureCode(op) == IF op = "create_task" THEN 500 ELSE 404

\* what the route makes of the service call's outcome
RouteAnswer(op, via, outcome) ==
    IF via # "route" THEN outcome
    ELSE [outcome EXCEPT !.http = IF outcome.kind = "return" THEN 200
                                  ELSE RouteFailureCode(op)]

\* a call begins: without a key the route answers 503 and the method raises,
\* neither sends anything; with a key the request is sent
Invoke(op, via) ==
    /\ rc_pc \in {"idle", "done"}
    /\ rc_done < MaxCalls
    /\ rc_op' = op
    /\ rc_via' = via
    /\ rc_answer' = NoAnswer
    /\ IF ~is_available
          THEN /\ rc_requests' = 0
               /\ rc_result' = IF via = "route"
                                  THEN [NoOutcome EXCEPT !.kind = "raise",
                                           !.exc = "HTTPException", !.http = 503]
                                  ELSE NotConfigured
               /\ rc_pc' = "done"
               /\ rc_done' = rc_done + 1
          ELSE /\ rc_requests' = 1
               /\ rc_result' = NoOutcome
               /\ rc_pc' = "sent"
               /\ UNCHANGED rc_done
    /\ UNCHANGED notRemoteVars

\* the awaited request completes and the method runs to its end
ProviderReplies(a) ==
    /\ rc_pc = "sent"
    /\ a \in AnswersOf(rc_op)
    /\ rc_answer' = a
    /\ rc_result' = RouteAnswer(rc_op, rc_via,
                       IF rc_op = "create_task" THEN create_task(a)
                                                ELSE get_task_status_call(a))
    /\ rc_pc' = "done"
    /\ rc_done' = rc_done + 1
    /\ UNCHANGED <<rc_op, rc_via, rc_requests, notRemoteVars>>

NextRemote ==
    \/ \E op \in RemoteOps, via \in Vias : Invoke(op, via)
    \/ \E a \in CreateAnswers \cup StatusAnswers : ProviderReplies(a)

(***************************************************************************)
(* Remote task client: properties                                          *)
(***************************************************************************)
InitRemote ==
    /\ api_key \in BOOLEAN
    /\ MonitorStart
    /\ LoopStart
    /\ GatherStart
    /\ SessionStart
    /\ ConfigServing
    /\ RemoteStart
    /\ LlmStart
    /\ CredStart
    /\ RouteStart
    /\ HealthStart
    /\ StreamStart
    /\ DemoStart
    /\ AdminStart

SpecRemote == InitRemote /\ [][NextRemote]_vars

Completed(op) == rc_pc = "done" /\ rc_op = op

Is2xx(code) == code >= 200 /\ code < 300

CreatedTask ==
    /\ rc_result.kind = "return"
    /\ rc_result.task = [task_id |-> rc_answer.id, session_id |-> rc_answer.id,
                         live_url |-> None, status |-> "started"]
    /\ rc_answer.id \in TaskIds
    /\ rc_via = "route" => rc_result.http = 200

\* C11 as claimed: every create makes exactly one request; a 2xx answer
\* gives the task, every non-2xx answer and every network error fails.
C11_OneRequestPerCreate ==
    Completed("create_task") =>
        /\ rc_requests = 1
        /\ (rc_answer.kind = "http" /\ Is2xx(rc_answer.code)) => CreatedTask
        /\ ~(rc_answer.kind = "http" /\ Is2xx(rc_answer.code)) => rc_result.kind = "raise"

\* C11, amended: a create never makes more than one request and its outcome
\* depends on nothing but the key and the provider's answer.  Without a key
\* it fails without a request (503 from the route).  With a key it makes
\* exactly one request; it returns the task (task_id and session_id the
\* provider's id, live_url absent, status "started") exactly when the answer
\* is a response with a status below 400 whose body is JSON holding an id;
\* otherwise (network error, 4xx/5xx, body not JSON, no id) it fails with
\* RuntimeError "Task creation failed" (500 from the route).
C11_CreateContract ==
    /\ rc_requests \in {0, 1}
    /\ Completed("create_task") =>
          IF ~is_available
             THEN /\ rc_requests = 0
                  /\ rc_result.kind = "raise"
                  /\ rc_via = "route" => rc_result.http = 503
             ELSE /\ rc_requests = 1
                  /\ IF /\ rc_answer.kind = "http"
                        /\ rc_answer.code < 400
                        /\ rc_answer.is_json
                        /\ rc_answer.has_id
                        THEN CreatedTask
                        ELSE /\ rc_result.kind = "raise"
                             /\ rc_result.exc = "RuntimeError"
                             /\ rc_result.message = "Task creation failed"
                             /\ rc_result.task = NoTask
                             /\ rc_via = "route" => rc_result.http = 500

\* a second create in a row, answered with another id than a first would be
C11_Witness ==
    /\ Completed("create_task")
    /\ rc_done = 2
    /\ is_available
    /\ rc_requests = 1
    /\ rc_answer.code = 200
    /\ rc_result.kind = "return"
    /\ rc_result.task.task_id = "t2"

\* C12: through the status route an upstream 404 is answered as not found,
\* any other upstream failure is answered as a failure that is not a
\* not-found, and a returned snapshot's steps_count is the length of its
\* step list.
C12_NotFoundOnlyFor404 ==
    (Completed("get_task_status") /\ rc_via = "route" /\ is_available) =>
        /\ (rc_answer.kind = "http" /\ rc_answer.code = 404) => rc_result.http = 404
        /\ (rc_result.kind = "raise" /\ ~(rc_answer.kind = "http" /\ rc_answer.code = 404))
              => rc_result.http # 404
        /\ rc_result.kind = "return" =>
              rc_result.snapshot.steps_count = Len(rc_result.snapshot.steps)

(***************************************************************************)
(* The flow generator: LLMService.generate_flows (the same code as         *)
(* generate_flows_with_llm of main.py) and the generate-flows route.       *)
(*                                                                         *)
(* A model output is a string; it is modelled as a sequence of tokens:     *)
(*   "fence" a markdown fence (three     "json"  the word json              *)
(*           backticks)                                                    *)
(*   "ws"   whitespace / newlines       "doc"   the text of a JSON value   *)
(*   "junk" text that is no JSON                                           *)
(* and the JSON value every "doc" token of the output stands for.          *)
(***************************************************************************)
Tokens == {"fence", "json", "ws", "doc", "junk"}

Absent == "<absent>"
JsonNull == "<null>"
JsonInt == "<int>"

\* a JSON value inside the list: an object with some of the three keys
\* (and maybe another key), or something that is no object
Item(is_object, name, description, instructions, extra) ==
    [is_object |-> is_object, name |-> name, description |-> description,
     instructions |-> instructions, extra |-> extra]

ItemA == Item(TRUE, "A", "B", "C", FALSE)
ItemD == Item(TRUE, "D", "E", "F", FALSE)
ItemExtraKey == Item(TRUE, "A", "B", "C", TRUE)
ItemNoInstructions == Item(TRUE, "A", "B", Absent, FALSE)
ItemNullName == Item(TRUE, JsonNull, "B", "C", FALSE)
ItemIntName == Item(TRUE, JsonInt, "E", "F", FALSE)
ItemNotObject == Item(FALSE, Absent, Absent, Absent, FALSE)

Items == {ItemA, ItemD, ItemExtraKey, ItemNoInstructions, ItemNullName,
          ItemIntName, ItemNotObject}

\* JSON documents: a list of items, or a value that is no list
Docs ==
    {NoDoc} \cup [is_list : {TRUE},
                  items : UNION {[1..n -> Items] : n \in 0..MaxItems}]

TokenSeqs == UNION {[1..n -> Tokens] : n \in 0..MaxTokens}

HasDoc(tokens) == \E i \in 1..Len(tokens) : tokens[i] = "doc"

\* model outputs; an output without a "doc" token stands for no document
ModelOutputs ==
    {t \in [tokens : TokenSeqs, doc : Docs] : ~HasDoc(t.tokens) => t.doc = NoDoc}

\* str.strip()
RECURSIVE lstrip(_)
lstrip(s) == IF s # <<>> /\ Head(s) = "ws" THEN lstrip(Tail(s)) ELSE s

RECURSIVE rstrip(_)
rstrip(s) ==
    IF s # <<>> /\ s[Len(s)] = "ws" THEN rstrip(SubSeq(s, 1, Len(s) - 1)) ELSE s

strip(s) == rstrip(lstrip(s))

\* content.startswith of the fence followed by json
startswith_fence_json(s) == Len(s) >= 2 /\ s[1] = "fence" /\ s[2] = "json"

\* content.startswith("fence")
startswith_fence(s) == Len(s) >= 1 /\ s[1] = "fence"

\* content.endswith("fence")
endswith_fence(s) == Len(s) >= 1 /\ s[Len(s)] = "fence"

\* (mutant) cleaning that only knows the opening fence with json
clean_json_fence_only(content) ==
    LET c1 == IF startswith_fence_json(content)
                 THEN SubSeq(content, 3, Len(content)) ELSE content
    IN  IF endswith_fence(c1) THEN SubSeq(c1, 1, Len(c1) - 1) ELSE c1

\* the three `if`s that remove the markdown code block, one after the other
clean(content) ==
    LET c1 == IF startswith_fence_json(content)
                 THEN SubSeq(content, 3, Len(content)) ELSE content
        c2 == IF startswith_fence(c1) THEN SubSeq(c1, 2, Len(c1)) ELSE c1
    IN  IF endswith_fence(c2) THEN SubSeq(c2, 1, Len(c2) - 1) ELSE c2

\* json.loads(content.strip()) succeeds iff the text is one JSON value
json_loads_ok(content) == strip(content) = <<"doc">>

ValueError(message) ==
    [kind |-> "raise", exc |-> "ValueError", message |-> message, flows |-> <<>>]

EmptyResponse == "Empty response from Gemini"
InvalidJson == "LLM returned invalid JSON response"
ExpectedArray == "Expected JSON array from LLM response"
NoValidFlows == "No valid flows generated from LLM response"

\* all(key in flow_data for key in ["name", "description", "instructions"])
has_all_keys(item) ==
    item.name # Absent /\ item.description # Absent /\ item.instructions # Absent

\* TestFlow(...) validation of one str field: None is rejected; an int is
\* rejected or converted to its digits, depending on the installed pydantic
field_ok(v, strict) == v # JsonNull /\ (v = JsonInt => ~strict)

TestFlow_ok(item, strict) ==
    /\ field_ok(item.name, strict)
    /\ field_ok(item.description, strict)
    /\ field_ok(item.instructions, strict)

TestFlow(item) ==
    [name |-> item.name, description |-> item.description,
     instructions |-> item.instructions]

\* the loop `for flow_data in flows_data`: skips what is no dict or lacks a
\* key, appends a TestFlow otherwise; TestFlow(...) may raise
RECURSIVE convert(_, _, _)
convert(items, strict, flows) ==
    IF items = <<>> THEN [raised |-> FALSE, flows |-> flows]
    ELSE LET item == Head(items) IN
         IF ~item.is_object \/ ~has_all_keys(item)
            THEN convert(Tail(items), strict, flows)
         ELSE IF ~TestFlow_ok(item, strict) THEN [raised |-> TRUE, flows |-> <<>>]
         ELSE convert(Tail(items), strict, Append(flows, TestFlow(item)))

\* (mutant) an empty output is handed on to the JSON parser
is_empty_never(text) == FALSE

\* `if not content`
is_empty(text) == text.tokens = <<>>

\* generate_flows from `content = response.text` on
generate_flows(text, strict) ==
    IF is_empty(text) THEN ValueError(EmptyResponse)
    ELSE LET content == clean(strip(text.tokens)) IN
         IF ~json_loads_ok(content) THEN ValueError(InvalidJson)
         ELSE IF ~text.doc.is_list THEN ValueError(ExpectedArray)
         ELSE LET c == convert(text.doc.items, strict, <<>>) IN
              IF c.raised
                 THEN [kind |-> "raise", exc |-> "ValidationError",
                       message |-> "validation error for TestFlow", flows |-> <<>>]
              ELSE IF c.flows = <<>> THEN ValueError(NoValidFlows)
              ELSE [kind |-> "return", exc |-> None, message |-> None,
                    flows |-> c.flows]

\* exceptions the route's `except ValueError` catches (pydantic's
\* ValidationError is a ValueError)
IsValueError(exc) == exc \in {"ValueError", "ValidationError"}

\* the route around the call
generate_flows_route(result) ==
    IF result.kind = "return"
       THEN [sent |-> TRUE, status |-> "success",
             message |-> "Successfully generated flows", detail |-> None,
             flows |-> result.flows]
    ELSE IF IsValueError(result.exc)
       THEN [sent |-> TRUE, status |-> "error", message |-> "Flow generation failed",
             detail |-> result.message, flows |-> <<>>]
    ELSE [sent |-> TRUE, status |-> "error", message |-> "An unexpected error occurred",
          detail |-> result.message, flows |-> <<>>]

\* the request arrives: without a client the route answers at once
CallGenerateFlows ==
    /\ llm_pc = "idle"
    /\ IF ~llm_is_available
          THEN /\ llm_pc' = "done"
               /\ llm_response' = [sent |-> TRUE, status |-> "error",
                                   message |-> "LLM service not available",
                                   detail |-> None, flows |-> <<>>]
          ELSE /\ llm_pc' = "awaiting"
               /\ UNCHANGED llm_response
    /\ UNCHANGED <<llm_validates_strictly, llm_text, llm_result, notLlmVars>>

\* generate_content returns: the rest of the call and of the route runs
ModelAnswers ==
    /\ llm_pc = "awaiting"
    /\ \E text \in ModelOutputs :
          /\ llm_text' = text
          /\ llm_result' = generate_flows(text, llm_validates_strictly)
          /\ llm_response' = generate_flows_route(llm_result')
    /\ llm_pc' = "done"
    /\ UNCHANGED <<llm_validates_strictly, notLlmVars>>

\* generate_content raises: `except Exception: raise`, then the route
ModelRaises ==
    /\ llm_pc = "awaiting"
    /\ llm_result' = [kind |-> "raise", exc |-> "APIError",
                      message |-> "api error", flows |-> <<>>]
    /\ llm_response' = generate_flows_route(llm_result')
    /\ llm_pc' = "done"
    /\ UNCHANGED <<llm_validates_strictly, llm_text, notLlmVars>>

NextLlm ==
    \/ CallGenerateFlows
    \/ ModelAnswers
    \/ ModelRaises

(***************************************************************************)
(* Flow generation: properties                                             *)
(***************************************************************************)
InitLlm ==
    /\ api_key = TRUE
    /\ MonitorStart
    /\ LoopStart
    /\ GatherStart
    /\ SessionStart
    /\ env = [OPENAI_API_KEY |-> "valid", CONVEX_URL |-> "valid",
              BROWSER_USE_API_KEY |-> "valid", GEMINI_API_KEY |-> "valid"]
    /\ phase = "serving"
    /\ gemini_client \in BOOLEAN
    /\ responses = <<>>
    /\ RemoteStart
    /\ llm_validates_strictly \in BOOLEAN
    /\ llm_pc = "idle"
    /\ llm_text = NoText
    /\ llm_result = NoFlowsResult
    /\ llm_response = NoFlowsResponse
    /\ CredStart
    /\ RouteStart
    /\ HealthStart
    /\ StreamStart
    /\ DemoStart
    /\ AdminStart

SpecLlm == InitLlm /\ [][NextLlm]_vars

Answered == llm_pc = "done" /\ llm_result.kind # "none" /\ llm_result.exc # "APIError"

\* the text left for the JSON parser
Cleaned(text) == clean(strip(text.tokens))

\* the output parsed to a list none of whose items is an object with the
\* three keys
ZeroValidEntries(text) ==
    /\ text.tokens # <<>>
    /\ json_loads_ok(Cleaned(text))
    /\ text.doc.is_list
    /\ \A i \in 1..Len(text.doc.items) :
          ~text.doc.items[i].is_object \/ ~has_all_keys(text.doc.items[i])

\* C13: an empty model output fails with "Empty response from Gemini", a
\* non-empty output that is no valid JSON fails with "LLM returned invalid
\* JSON response", an output with zero valid entries fails with "No valid
\* flows generated from LLM response"; each message is raised for that cause
\* only, so the three causes can be told apart (all three are ValueErrors),
\* and the route passes the message on.
C13_ThreeCausesDistinguishable ==
    Answered =>
        /\ llm_result.message = EmptyResponse <=> llm_text.tokens = <<>>
        /\ llm_result.message = InvalidJson <=>
              (llm_text.tokens # <<>> /\ ~json_loads_ok(Cleaned(llm_text)))
        /\ llm_result.message = NoValidFlows <=> ZeroValidEntries(llm_text)
        /\ llm_result.message \in {EmptyResponse, InvalidJson, NoValidFlows} =>
              /\ llm_result.kind = "raise"
              /\ llm_result.exc = "ValueError"
              /\ llm_response.status = "error"
              /\ llm_response.detail = llm_result.message
        /\ Cardinality({EmptyResponse, InvalidJson, NoValidFlows}) = 3

C13_Witness ==
    /\ Answered
    /\ llm_text.tokens = <<>>
    /\ llm_result = ValueError(EmptyResponse)
    /\ llm_response.detail = EmptyResponse

IsString(v) == v \notin {Absent, JsonNull, JsonInt}

\* an item with exactly the three string fields
ExactlyThreeStrings(item) ==
    /\ item.is_object
    /\ IsString(item.name)
    /\ IsString(item.description)
    /\ IsString(item.instructions)
    /\ ~item.extra

\* C14: the parsed output must be a list, else the call fails; an item is
\* accepted only if it has exactly the three string fields, every other item
\* is dropped without failing the call; the accepted items are returned in
\* their order; the call fails if none is accepted.
C14_FilterDropsMalformed ==
    (Answered /\ llm_text.tokens # <<>> /\ json_loads_ok(Cleaned(llm_text))) =>
        IF ~llm_text.doc.is_list THEN llm_result.kind = "raise"
        ELSE LET accepted == SelectSeq(llm_text.doc.items, ExactlyThreeStrings) IN
             IF accepted = <<>> THEN llm_result.kind = "raise"
             ELSE /\ llm_result.kind = "return"
                  /\ llm_result.flows = [i \in 1..Len(accepted) |-> TestFlow(accepted[i])]

Openings == {<<"fence", "json">>, <<"fence">>, <<"fence", "json", "ws">>, <<"fence", "ws">>}

Closings == {<<"fence">>, <<"ws", "fence">>}

\* the text wrapped in a markdown code block
Wrap(opening, text, closing) ==
    [tokens |-> opening \o text.tokens \o closing, doc |-> text.doc]

WrapKeepsResult(text, strict) ==
    \A opening \in Openings, closing \in Closings :
        generate_flows(Wrap(opening, text, closing), strict) = generate_flows(text, strict)

\* C15 as claimed: for every model output, the output wrapped in a code
\* block gives the result the output itself gives.
C15_FenceNeverMatters ==
    Answered => /\ generate_flows(llm_text, llm_validates_strictly) = llm_result
                /\ WrapKeepsResult(llm_text, llm_validates_strictly)

\* the output has no fence of its own at either end and does not begin with
\* the word json
Unfenced(text) ==
    LET s == strip(text.tokens) IN
    /\ text.tokens # <<>>
    /\ s # <<>> => (s[1] \notin {"fence", "json"} /\ s[Len(s)] # "fence")

SingleItemA == [is_list |-> TRUE, items |-> <<ItemA>>]

\* C15, amended: for a non-empty model output that neither begins with a
\* fence or the word json nor ends with a fence, the output wrapped in a
\* code block gives the result the output itself gives; a fenced list with
\* the single item (A, B, C) gives exactly the one flow (A, B, C).
C15_FenceAroundUnfenced ==
    Answered =>
        /\ generate_flows(llm_text, llm_validates_strictly) = llm_result
        /\ Unfenced(llm_text) => WrapKeepsResult(llm_text, llm_validates_strictly)
        /\ (/\ llm_text.doc = SingleItemA
            /\ \E opening \in Openings, closing \in Closings :
                  llm_text.tokens = opening \o <<"doc">> \o closing)
           => /\ llm_result.kind = "return"
              /\ llm_result.flows = <<[name |-> "A", description |-> "B",
                                       instructions |-> "C"]>>

C15_Witness ==
    /\ Answered
    /\ llm_text = [tokens |-> <<"fence", "json", "doc", "fence">>, doc |-> SingleItemA]
    /\ llm_result.kind = "return"
    /\ llm_result.flows = <<TestFlow(ItemA)>>
    /\ llm_result = generate_flows([tokens |-> <<"doc">>, doc |-> SingleItemA],
                                   llm_validates_strictly)

(***************************************************************************)
(* The credential store of test_server.py: a process-wide dict and the     *)
(* two routes that write and list it.                                      *)
(***************************************************************************)
\* a domain string as a request gives it: an optional scheme, an optional
\* "*." prefix, a base domain
DomainString(scheme, wildcard, base) ==
    [scheme |-> scheme, wildcard |-> wildcard, base |-> base]

\* "https://example.com", "example.com", "*.example.com",
\* "https://*.example.com", "other.com"
Domains ==
    {DomainString(s, w, "example.com") : s \in BOOLEAN, w \in BOOLEAN}
    \cup {DomainString(FALSE, FALSE, "other.com")}

\* the credentials of a request: Dict[str, str]
Mappings == {("u" :> "a"), ("u" :> "b") @@ ("p" :> "c")}

\* list(d.keys())
Keys(d) == [i \in 1..Len(d) |-> d[i].key]

HasKey(d, k) == \E i \in 1..Len(d) : d[i].key = k

\* d[k] for a key that is present
Lookup(d, k) == d[CHOOSE i \in 1..Len(d) : d[i].key = k].value

\* (mutant) an assignment that always inserts
dict_append(d, k, v) == Append(d, [key |-> k, value |-> v])

\* d[k] = v on a dict: replaces the value of a present key in place,
\* inserts an absent key at the end
dict_setitem(d, k, v) ==
    IF HasKey(d, k)
       THEN [i \in 1..Len(d) |-> IF d[i].key = k THEN [key |-> k, value |-> v] ELSE d[i]]
       ELSE Append(d, [key |-> k, value |-> v])

\* POST /api/credentials/add: the key is request.domain as given
add_credentials(domain, credentials) ==
    /\ Len(cred_adds) < MaxAdds
    /\ CREDENTIALS_STORE' = dict_setitem(CREDENTIALS_STORE, domain, credentials)
    /\ cred_adds' = Append(cred_adds, [domain |-> domain, credentials |-> credentials])
    /\ cred_response' = [NoCredResponse EXCEPT
            !.route = "add", !.status = "success", !.http = 200,
            !.domain = domain,
            !.credentials_count = Cardinality(DOMAIN credentials)]
    /\ UNCHANGED notCredVars

\* GET /api/credentials/list
list_credentials ==
    /\ cred_response' = [NoCredResponse EXCEPT
            !.route = "list", !.status = "success", !.http = 200,
            !.domains = Keys(CREDENTIALS_STORE),
            !.total_domains = Len(Keys(CREDENTIALS_STORE))]
    /\ UNCHANGED <<CREDENTIALS_STORE, cred_adds, notCredVars>>

NextCred ==
    \/ \E domain \in Domains, credentials \in Mappings : add_credentials(domain, credentials)
    \/ list_credentials

(***************************************************************************)
(* Credential store: properties                                            *)
(***************************************************************************)
InitCred ==
    /\ api_key = TRUE
    /\ MonitorStart
    /\ LoopStart
    /\ GatherStart
    /\ SessionStart
    /\ ConfigServing
    /\ RemoteStart
    /\ LlmStart
    /\ CredStart
    /\ RouteStart
    /\ HealthStart
    /\ StreamStart
    /\ DemoStart
    /\ AdminStart

SpecCred == InitCred /\ [][NextCred]_vars

\* the domains added so far
Added == {cred_adds[i].domain : i \in 1..Len(cred_adds)}

\* the mapping of the most recent add for a domain
LastAdded(domain) ==
    cred_adds[CHOOSE i \in 1..Len(cred_adds) :
                 /\ cred_adds[i].domain = domain
                 /\ \A j \in (i + 1)..Len(cred_adds) : cred_adds[j].domain # domain
             ].credentials

NoDuplicates(s) == \A i, j \in 1..Len(s) : s[i] = s[j] => i = j

\* C16: after any sequence of adds the store holds one record for each
\* domain pattern given and no other, the record is the mapping of the most
\* recent add for that pattern, and a listing names each stored pattern once
\* with total_domains the number of distinct patterns.
C16_OneRecordPerPattern ==
    /\ NoDuplicates(Keys(CREDENTIALS_STORE))
    /\ {Keys(CREDENTIALS_STORE)[i] : i \in 1..Len(CREDENTIALS_STORE)} = Added
    /\ \A domain \in Added : Lookup(CREDENTIALS_STORE, domain) = LastAdded(domain)
    /\ cred_response.route = "list" =>
          /\ NoDuplicates(cred_response.domains)
          /\ {cred_response.domains[i] : i \in 1..Len(cred_response.domains)} = Added
          /\ cred_response.total_domains = Cardinality(Added)

\* the same pattern added twice with different mappings, then listed
C16_Witness ==
    /\ Len(cred_adds) = 3
    /\ cred_adds[1].domain = cred_adds[3].domain
    /\ cred_adds[1].credentials # cred_adds[3].credentials
    /\ cred_adds[2].domain # cred_adds[1].domain
    /\ cred_response.route = "list"
    /\ cred_response.total_domains = 2
    /\ Lookup(CREDENTIALS_STORE, cred_adds[1].domain) = cred_adds[3].credentials

\* the normalized key of a domain string: no scheme, a "*." prefix
Normalized(domain) == DomainString(FALSE, TRUE, domain.base)

\* C17: add stores the record under the normalized key (scheme stripped,
\* "*." prefix ensured), so adds for "https://example.com", "example.com"
\* and "*.example.com" upsert one and the same record.
C17_StoredUnderNormalizedKey ==
    /\ \A i \in 1..Len(CREDENTIALS_STORE) :
          CREDENTIALS_STORE[i].key = Normalized(CREDENTIALS_STORE[i].key)
    /\ Len(CREDENTIALS_STORE) = Cardinality({Normalized(d) : d \in Added})

(***************************************************************************)
(* The local session routes (routes/browser.py) on the BrowserManager and  *)
(* the generate-flows route, serving one request at a time: each action    *)
(* is a whole handler, the manager call inside it included.                *)
(***************************************************************************)
\* a dict the manager returned, sent as it is (no timestamp key in it)
Passed(route, sid, status, total) ==
    [NoRouteResponse EXCEPT !.route = route, !.sid = sid, !.status = status,
                            !.total = total]

\* (mutant) a handler without its except branch
route_reraise(route, sid, exc, message) ==
    [NoRouteResponse EXCEPT !.route = route, !.sid = sid, !.raised = exc,
                            !.escaped = TRUE]

\* `except Exception as e: return {..., "status": "error", "error": str(e)}`
route_except(route, sid, exc, message) ==
    [NoRouteResponse EXCEPT !.route = route, !.sid = sid, !.status = "error",
                            !.raised = exc, !.error = message]

NotFoundMessage == "Browser session not found"

\* POST /api/browser/session/create
RouteCreateSession(sid, ok) ==
    /\ next_agent < MaxAgents
    /\ IF ok
          THEN /\ active_agents' = DictSet(active_agents, sid, next_agent + 1)
               /\ session_logs' =
                     DictSet(session_logs, sid, <<LogEntry("session_created", "success")>>)
               /\ next_agent' = next_agent + 1
               /\ route_response' = Passed("create", sid, "created", 0)
          ELSE /\ route_response' = route_except("create", sid, "RuntimeError",
                                                 "Failed to create browser session")
               /\ UNCHANGED <<active_agents, session_logs, next_agent>>
    /\ UNCHANGED <<closed_agents, proc, notSessRouteVars>>

\* POST /api/browser/session/navigate, /click, /type
RouteRunOp(op, sid, ok) ==
    /\ IF ~IsActive(sid)
          THEN /\ route_response' = route_except(op, sid, "ValueError", NotFoundMessage)
               /\ UNCHANGED session_logs
          ELSE /\ Len(session_logs[sid]) < MaxLog
               /\ session_logs' = [session_logs EXCEPT ![sid] =
                     Append(@, LogEntry(op, IF ok THEN "success" ELSE "error"))]
               /\ route_response' =
                     IF ok THEN Passed(op, sid, "success", 0)
                           ELSE route_except(op, sid, "RuntimeError", "Agent run failed")
    /\ UNCHANGED <<active_agents, next_agent, closed_agents, proc, notSessRouteVars>>

\* GET /api/browser/session/{session_id}/info
RouteGetPageInfo(sid) ==
    /\ IF ~IsActive(sid)
          THEN /\ route_response' =
                     route_except("get_page_info", sid, "ValueError", NotFoundMessage)
               /\ UNCHANGED session_logs
          ELSE /\ Len(session_logs[sid]) < MaxLog
               /\ session_logs' = [session_logs EXCEPT ![sid] =
                     Append(@, LogEntry("get_page_info", "success"))]
               /\ route_response' = Passed("get_page_info", sid, "success", 0)
    /\ UNCHANGED <<active_agents, next_agent, closed_agents, proc, notSessRouteVars>>

\* GET /api/browser/session/{session_id}/status
RouteGetSessionStatus(sid) ==
    /\ route_response' = Passed("status", sid, get_session_status(sid).status,
                                get_session_status(sid).total_actions)
    /\ UNCHANGED <<sessVars, notSessRouteVars>>

\* GET /api/browser/session/{session_id}/logs
RouteGetSessionLogs(sid) ==
    /\ route_response' = Passed("logs", sid, "success", Len(get_session_logs(sid)))
    /\ UNCHANGED <<sessVars, notSessRouteVars>>

\* DELETE /api/browser/session/{session_id}
RouteCloseSession(sid, ok) ==
    /\ IF ~IsActive(sid)
          THEN /\ route_response' = route_except("close", sid, "ValueError", NotFoundMessage)
               /\ UNCHANGED <<active_agents, session_logs, closed_agents>>
          ELSE IF ~ok
          THEN /\ route_response' = route_except("close", sid, "RuntimeError",
                                                 "Failed to close browser session")
               /\ UNCHANGED <<active_agents, session_logs, closed_agents>>
          ELSE /\ closed_agents' = closed_agents \cup {active_agents[sid]}
               /\ active_agents' = DictDel(active_agents, sid)
               /\ session_logs' = [session_logs EXCEPT ![sid] =
                     Append(@, LogEntry("session_closed", "success"))]
               /\ route_response' = Passed("close", sid, "closed", Len(session_logs'[sid]))
    /\ UNCHANGED <<next_agent, proc, notSessRouteVars>>

\* GET /api/browser/sessions
RouteListActiveSessions ==
    /\ route_response' = Passed("list", None, "success", Cardinality(get_active_sessions))
    /\ UNCHANGED <<sessVars, notSessRouteVars>>

\* the model outputs that differ for the route: at most one token, at most
\* one item
ShortOutputs == {t \in ModelOutputs : Len(t.tokens) <= 1 /\ Len(t.doc.items) <= 1}

\* POST /api/generate-flows: the call and both except branches
RouteGenerateFlows(text, api_ok) ==
    /\ llm_is_available
    /\ LET result == IF api_ok THEN generate_flows(text, llm_validates_strictly)
                               ELSE [kind |-> "raise", exc |-> "APIError",
                                     message |-> "api error", flows |-> <<>>]
           sent == generate_flows_route(result)
       IN  route_response' =
              [NoRouteResponse EXCEPT
                  !.route = "generate-flows", !.status = sent.status,
                  !.has_timestamp = TRUE,
                  !.raised = result.exc,
                  !.error = sent.detail,
                  !.flows = sent.flows]
    /\ UNCHANGED <<sessVars, notSessRouteVars>>

NextRoutes ==
    \/ \E sid \in SessionIds, ok \in BOOLEAN : RouteCreateSession(sid, ok)
    \/ \E op \in RunOps, sid \in SessionIds, ok \in BOOLEAN : RouteRunOp(op, sid, ok)
    \/ \E sid \in SessionIds : RouteGetPageInfo(sid)
    \/ \E sid \in SessionIds : RouteGetSessionStatus(sid)
    \/ \E sid \in SessionIds : RouteGetSessionLogs(sid)
    \/ \E sid \in SessionIds, ok \in BOOLEAN : RouteCloseSession(sid, ok)
    \/ RouteListActiveSessions
    \/ \E text \in ShortOutputs, api_ok \in BOOLEAN : RouteGenerateFlows(text, api_ok)

(***************************************************************************)
(* Session and flow routes: properties                                     *)
(***************************************************************************)
InitRoutes ==
    /\ api_key = TRUE
    /\ MonitorStart
    /\ LoopStart
    /\ GatherStart
    /\ SessionStart
    /\ ConfigServing
    /\ RemoteStart
    /\ llm_validates_strictly \in BOOLEAN
    /\ llm_pc = "idle"
    /\ llm_text = NoText
    /\ llm_result = NoFlowsResult
    /\ llm_response = NoFlowsResponse
    /\ CredStart
    /\ RouteStart
    /\ HealthStart
    /\ StreamStart
    /\ DemoStart
    /\ AdminStart

SpecRoutes == InitRoutes /\ [][NextRoutes]_vars

Served == route_response.route # None

\* C18: every response of an /api/... route carries a status field that is
\* "success" or "error", and a timestamp field.
C18_StatusAndTimestamp ==
    Served => /\ route_response.status \in {"success", "error"}
              /\ route_response.has_timestamp

SessionRoutes == {"create", "navigate", "click", "type", "get_page_info",
                  "status", "logs", "close", "list"}

\* C19: no exception escapes a local session route or the generate-flows
\* route: whatever the manager or the LLM call raised, the response has
\* status "error" and the message of the exception (and, for
\* generate-flows, no flows).
C19_NoExceptionEscapes ==
    Served =>
        /\ ~route_response.escaped
        /\ route_response.raised # None =>
              /\ route_response.status = "error"
              /\ route_response.error # None
              /\ route_response.flows = <<>>
        /\ (route_response.route \in SessionRoutes /\ route_response.raised = "ValueError")
              => route_response.error = NotFoundMessage
        /\ (route_response.route = "generate-flows" /\ route_response.raised = "ValueError")
              => route_response.error \in {EmptyResponse, InvalidJson, ExpectedArray,
                                           NoValidFlows}

\* the manager raised while closing an active session
C19_Witness ==
    /\ route_response.route = "close"
    /\ route_response.raised = "RuntimeError"
    /\ route_response.status = "error"
    /\ route_response.error = "Failed to close browser session"
    /\ IsActive(route_response.sid)

\* the operations of the claim
UnknownIdRoutes == {"navigate", "click", "type", "get_page_info", "close",
                    "status", "logs"}

NotFoundOutcome(r) ==
    \/ r.status = "error" /\ r.raised = "ValueError" /\ r.error = NotFoundMessage
    \/ r.route = "status" /\ r.status = "not_found"

\* a request of one of the routes in rs for an id that is not active
ServesUnknownId(rs) ==
    /\ route_response'.route \in rs
    /\ route_response'.sid \notin DOMAIN active_agents

\* C20 as claimed: each of navigate, click, type, page info, close, status
\* and logs, given an unknown session id, reports not-found and leaves both
\* maps unchanged.
C20_UnknownIdNotFound ==
    [][ServesUnknownId(UnknownIdRoutes) =>
            /\ NotFoundOutcome(route_response')
            /\ UNCHANGED <<active_agents, session_logs>>]_vars

\* C20, amended: given an unknown session id, navigate, click, type, page
\* info and close report not-found (an error response "Browser session not
\* found"), status reports "not_found", and logs reports success with the
\* log kept for that id (empty if there is none); all of them leave both
\* maps unchanged.
C20_UnknownIdLeavesMaps ==
    [][/\ ServesUnknownId(UnknownIdRoutes \ {"logs"}) =>
            /\ NotFoundOutcome(route_response')
            /\ UNCHANGED <<active_agents, session_logs>>
       /\ ServesUnknownId({"logs"}) =>
            /\ route_response'.status = "success"
            /\ route_response'.raised = None
            /\ route_response'.total = Len(get_session_logs(route_response'.sid))
            /\ UNCHANGED <<active_agents, session_logs>>]_vars

\* close asked for a session that was closed before: its log is kept
C20_Witness ==
    /\ route_response.route = "close"
    /\ NotFoundOutcome(route_response)
    /\ ~IsActive(route_response.sid)
    /\ route_response.sid \in DOMAIN session_logs
    /\ Len(session_logs[route_response.sid]) >= 2

(***************************************************************************)
(* The health checker (services/health_checker.py): four probes run under  *)
(* one asyncio.gather, their results collected into a dict by service name *)
(* and aggregated into one overall status.                                 *)
(***************************************************************************)
\* a ServiceHealth a probe returned
ServiceHealth(status, error) == [kind |-> "returned", status |-> status, error |-> error]

\* an exception that left the probe coroutine; gather(return_exceptions=True)
\* hands it back in the probe's place
RaisedProbe == [kind |-> "raised", status |-> None, error |-> "exception"]

\* what the OpenAI client call may do
OpenaiOutcomes == {"ok", "AuthenticationError", "RateLimitError", "Exception"}

\* what an aiohttp GET may do: answer with a status code, time out, raise
\* any other exception
HttpOutcomes ==
    [raised : {None}, code : HttpCodes]
        \cup [raised : {"TimeoutError", "Exception"}, code : {0}]

\* HealthChecker.__init__: openai_client is built iff config.openai.api_key
openai_client == health_config.OPENAI_API_KEY = "valid"

\* `if not config.browser_use.api_key`
browser_use_key_missing == health_config.BROWSER_USE_API_KEY # "valid"

\* `if not config.convex.deployment_url`
convex_url_missing == health_config.CONVEX_URL # "valid"

\* check_openai_health
check_openai_health(outcome) ==
    IF ~openai_client THEN ServiceHealth(UNHEALTHY, "Missing API key")
    ELSE IF outcome = "ok" THEN ServiceHealth(HEALTHY, None)
    ELSE IF outcome = "AuthenticationError" THEN ServiceHealth(UNHEALTHY, "Invalid API key")
    ELSE IF outcome = "RateLimitError" THEN ServiceHealth(DEGRADED, "Rate limit exceeded")
    ELSE ServiceHealth(UNHEALTHY, "exception")

\* the body shared by check_browser_use_health and check_convex_health once
\* the key or URL is known to be there: one GET, judged by its status code
http_probe(outcome) ==
    IF outcome.raised = None /\ outcome.code = 200 THEN ServiceHealth(HEALTHY, None)
    ELSE IF outcome.raised = None THEN ServiceHealth(DEGRADED, "HTTP")
    ELSE IF outcome.raised = "TimeoutError" THEN ServiceHealth(UNHEALTHY, "Request timeout")
    ELSE ServiceHealth(UNHEALTHY, "exception")

\* check_browser_use_health
check_browser_use_health(outcome) ==
    IF browser_use_key_missing THEN ServiceHealth(UNHEALTHY, "Missing API key")
    ELSE http_probe(outcome)

\* check_convex_health
check_convex_health(outcome) ==
    IF convex_url_missing THEN ServiceHealth(UNHEALTHY, "Missing deployment URL")
    ELSE http_probe(outcome)

\* check_fastapi_health
check_fastapi_health == ServiceHealth(HEALTHY, None)

\* get_overall_health_status begins: check_all_services starts the four
\* probes under one gather
StartHealthCheck ==
    /\ health_pc = "idle"
    /\ health_pc' = "gathering"
    /\ UNCHANGED <<health_config, health_checks, health_network, health_report, notHealthVars>>

\* probe i finishes with result r, having contacted its service or not
ProbeDone(i, r, contacted) ==
    /\ health_checks' = [health_checks EXCEPT ![i] = r]
    /\ health_network' = IF contacted THEN health_network \cup {service_names[i]}
                         ELSE health_network
    /\ UNCHANGED <<health_config, health_pc, health_report, notHealthVars>>

FastapiProbe ==
    /\ health_pc = "gathering"
    /\ health_checks[1] = PendingProbe
    /\ \E escapes \in BOOLEAN :
           ProbeDone(1, IF escapes THEN RaisedProbe ELSE check_fastapi_health, FALSE)

OpenaiProbe ==
    /\ health_pc = "gathering"
    /\ health_checks[2] = PendingProbe
    /\ \E outcome \in OpenaiOutcomes, escapes \in BOOLEAN :
           ProbeDone(2, IF escapes THEN RaisedProbe ELSE check_openai_health(outcome),
                     openai_client)

BrowserUseProbe ==
    /\ health_pc = "gathering"
    /\ health_checks[3] = PendingProbe
    /\ \E outcome \in HttpOutcomes, escapes \in BOOLEAN :
           ProbeDone(3, IF escapes THEN RaisedProbe ELSE check_browser_use_health(outcome),
                     ~browser_use_key_missing)

ConvexProbe ==
    /\ health_pc = "gathering"
    /\ health_checks[4] = PendingProbe
    /\ \E outcome \in HttpOutcomes, escapes \in BOOLEAN :
           ProbeDone(4, IF escapes THEN RaisedProbe ELSE check_convex_health(outcome),
                     ~convex_url_missing)

\* (mutant) the result is stored as it came, exception or not
collect_unchecked(result) == result

\* check_all_services, the loop body: an exception in the place of a result
\* becomes an UNHEALTHY ServiceHealth for that service
collect(result) ==
    IF result.kind = "raised" THEN ServiceHealth(UNHEALTHY, "exception") ELSE result

\* results = {service_names[i]: collect(health_checks[i])}
results_of(checks) == [i \in 1..Len(service_names) |-> collect(checks[i])]

\* sum(1 for h in service_health.values() if h.status == status)
count_status(results, status) ==
    Cardinality({i \in DOMAIN results : results[i].status = status})

\* (mutant) DEGRADED is looked for before UNHEALTHY
overall_status_degraded_first(results) ==
    IF \A i \in DOMAIN results : results[i].status = HEALTHY THEN HEALTHY
    ELSE IF \E i \in DOMAIN results : results[i].status = DEGRADED THEN DEGRADED
    ELSE IF \E i \in DOMAIN results : results[i].status = UNHEALTHY THEN UNHEALTHY
    ELSE UNKNOWN

\* get_overall_health_status: the if / elif chain over the statuses
overall_status(results) ==
    IF \A i \in DOMAIN results : results[i].status = HEALTHY THEN HEALTHY
    ELSE IF \E i \in DOMAIN results : results[i].status = UNHEALTHY THEN UNHEALTHY
    ELSE IF \E i \in DOMAIN results : results[i].status = DEGRADED THEN DEGRADED
    ELSE UNKNOWN

\* the dict get_overall_health_status returns
report_of(results) ==
    [overall_status |-> overall_status(results),
     services       |-> results,
     total_services |-> Len(results),
     healthy        |-> count_status(results, HEALTHY),
     degraded       |-> count_status(results, DEGRADED),
     unhealthy      |-> count_status(results, UNHEALTHY),
     unknown        |-> count_status(results, UNKNOWN)]

\* gather returns once every probe is done; check_all_services fills the dict
\* and reads health.status of every entry for its log line (an entry that is
\* no ServiceHealth has no status: AttributeError), then the caller aggregates
FinishHealthCheck ==
    /\ health_pc = "gathering"
    /\ \A i \in DOMAIN health_checks : health_checks[i] # PendingProbe
    /\ LET results == results_of(health_checks) IN
         IF \E i \in DOMAIN results : results[i].kind # "returned"
         THEN /\ health_pc' = "failed"
              /\ UNCHANGED health_report
         ELSE /\ health_pc' = "done"
              /\ health_report' = report_of(results)
    /\ UNCHANGED <<health_config, health_checks, health_network, notHealthVars>>

NextHealth ==
    \/ StartHealthCheck
    \/ FastapiProbe
    \/ OpenaiProbe
    \/ BrowserUseProbe
    \/ ConvexProbe
    \/ FinishHealthCheck

\* the environments config.py lets the process start with
InitHealth ==
    /\ api_key = TRUE
    /\ MonitorStart
    /\ LoopStart
    /\ GatherStart
    /\ SessionStart
    /\ ConfigServing
    /\ RemoteStart
    /\ LlmStart
    /\ CredStart
    /\ RouteStart
    /\ health_config \in {e \in Environments : load_config(e)}
    /\ health_pc = "idle"
    /\ health_checks = [i \in 1..Len(service_names) |-> PendingProbe]
    /\ health_network = {}
    /\ health_report = NoReport
    /\ StreamStart
    /\ DemoStart
    /\ AdminStart

SpecHealth == InitHealth /\ [][NextHealth]_vars

\* C21: the overall status is HEALTHY exactly when every service is HEALTHY;
\* otherwise UNHEALTHY if some service is UNHEALTHY; otherwise DEGRADED if
\* some service is DEGRADED; otherwise UNKNOWN; the four summary counts add
\* up to total_services, which is 4.
Reported == health_pc = "done"

SomeService(status) ==
    \E i \in DOMAIN health_report.services : health_report.services[i].status = status

C21_OverallStatus ==
    Reported =>
        LET all_healthy ==
                \A i \in DOMAIN health_report.services :
                    health_report.services[i].status = HEALTHY
            o == health_report.overall_status
        IN  /\ (o = HEALTHY) <=> all_healthy
            /\ (~all_healthy /\ SomeService(UNHEALTHY)) => o = UNHEALTHY
            /\ (~all_healthy /\ ~SomeService(UNHEALTHY) /\ SomeService(DEGRADED))
                   => o = DEGRADED
            /\ (~all_healthy /\ ~SomeService(UNHEALTHY) /\ ~SomeService(DEGRADED))
                   => o = UNKNOWN
            /\ health_report.healthy + health_report.degraded
                   + health_report.unhealthy + health_report.unknown
               = health_report.total_services
            /\ health_report.total_services = 4

\* a report over services of which one is degraded and another unhealthy
C21_Witness ==
    /\ Reported
    /\ SomeService(UNHEALTHY)
    /\ SomeService(DEGRADED)
    /\ SomeService(HEALTHY)
    /\ health_report.overall_status = UNHEALTHY

\* C22: check_all_services returns one entry for each of the four services,
\* each the result of its own probe; a probe that raised is UNHEALTHY for its
\* own service and the call still returns; a missing key or URL gives
\* UNHEALTHY for that service with no request sent.
KeyMissing(i) ==
    \/ service_names[i] = "openai" /\ ~openai_client
    \/ service_names[i] = "browser-use-cloud" /\ browser_use_key_missing
    \/ service_names[i] = "convex" /\ convex_url_missing

C22_OneEntryPerService ==
    /\ health_pc # "failed"
    /\ Reported =>
         /\ DOMAIN health_report.services = 1..4
         /\ \A i \in 1..4 :
              LET entry == health_report.services[i] IN
              /\ health_checks[i].kind = "returned" => entry = health_checks[i]
              /\ health_checks[i].kind = "raised" => entry.status = UNHEALTHY
              /\ KeyMissing(i) /\ health_checks[i].kind = "returned" =>
                    /\ entry.status = UNHEALTHY
                    /\ service_names[i] \notin health_network

\* a report where one probe raised, the browser key is missing and another
\* service is healthy
C22_Witness ==
    /\ Reported
    /\ \E i \in 1..4 : health_checks[i].kind = "raised"
    /\ KeyMissing(3) /\ health_checks[3].kind = "returned"
    /\ \E i \in 1..4 : health_report.services[i].status = HEALTHY

(***************************************************************************)
(* The task stream endpoint.  routes/browser.py wraps monitor_task_stream  *)
(* in generate_task_stream, which turns each yielded value into one frame; *)
(* main.py runs the same loop inline and frames each dict with json.dumps. *)
(***************************************************************************)
\* f"data: {<json>}\n\n"
Frame(payload) == [prefix |-> "data: ", json |-> payload, suffix |-> "\n\n"]

\* json.dumps(data): every key of the dict, type included
json_dumps(data) == data

\* data.json(): a method of pydantic models.  Every value the monitor yields
\* (step_data, status_data, final_data, error_data) is a dict literal, and a
\* dict has no attribute json: evaluating data.json() raises AttributeError
has_json_method(data) == FALSE

\* the generator resumes only when the transport asks for the next frame:
\* every event yielded so far has been framed and the wrapper is alive
MonitorResumes ==
    /\ stream_pc = "open"
    /\ Len(frames) = Len(events)
    /\ NextMonitor

\* generate_task_stream, one iteration of `async for data in ...`
Forward ==
    /\ stream_pc = "open"
    /\ Len(frames) < Len(events)
    /\ LET data == events[Len(frames) + 1] IN
         IF stream_via = "main"
         THEN /\ frames' = Append(frames, Frame(json_dumps(data)))
              /\ UNCHANGED stream_pc
         ELSE IF has_json_method(data)
              THEN /\ frames' = Append(frames, Frame(json_dumps(data)))
                   /\ UNCHANGED stream_pc
              ELSE /\ stream_pc' = "AttributeError"
                   /\ UNCHANGED frames
    /\ UNCHANGED <<stream_via, monVars, notMonStreamVars>>

NextStream ==
    \/ MonitorResumes
    \/ Forward

InitStream ==
    /\ api_key \in BOOLEAN
    /\ MonitorStart
    /\ LoopStart
    /\ GatherStart
    /\ SessionStart
    /\ ConfigServing
    /\ RemoteStart
    /\ LlmStart
    /\ CredStart
    /\ RouteStart
    /\ HealthStart
    /\ stream_via \in StreamVias
    /\ frames = <<>>
    /\ stream_pc = "open"
    /\ DemoStart
    /\ AdminStart

SpecStream == InitStream /\ [][NextStream]_vars

\* C23: the stream route of routes/browser.py hands every event the monitor
\* yields to the client as exactly one frame "data: <json>" + blank line, in
\* the order yielded, the type field inside the payload; no event is lost and
\* the wrapper does not end the stream before the monitor does.
C23_EveryEventFramed ==
    stream_via = "routes" =>
        /\ stream_pc = "open"
        /\ Len(events) - Len(frames) \in {0, 1}
        /\ \A i \in 1..Len(frames) :
              /\ frames[i] = Frame(events[i])
              /\ "type" \in DOMAIN frames[i].json

(***************************************************************************)
(* The demo stream: generate_stream_data behind GET /api/stream (main.py). *)
(***************************************************************************)
\* `if counter >= 50`
MAX_STREAM_MESSAGES == 50

\* (mutant) the divisibility tests in the other order
update_type_five_first(n) ==
    IF n % 5 = 0 THEN "status_update"
    ELSE IF n % 3 = 0 THEN "periodic_update"
    ELSE "data_update"

\* the if / elif / else on counter
update_type(n) ==
    IF n % 3 = 0 THEN "periodic_update"
    ELSE IF n % 5 = 0 THEN "status_update"
    ELSE "data_update"

\* the dict of one update; the counter is under "counter", or under
\* metrics.messages_sent in a status_update
update_data(n) == [type |-> update_type(n), counter |-> n]

initial_data == [type |-> "connection_established"]

final_data_of(n) == [type |-> "stream_complete", total_messages |-> n]

\* the first pull: yield the connection message
DemoConnect ==
    /\ demo_pc = "init"
    /\ demo_events' = Append(demo_events, initial_data)
    /\ demo_pc' = "sleep"
    /\ UNCHANGED <<counter, notDemoVars>>

\* await asyncio.sleep(2); counter += 1; build data; yield it
DemoTick ==
    /\ demo_pc = "sleep"
    /\ counter' = counter + 1
    /\ demo_events' = Append(demo_events, update_data(counter + 1))
    /\ demo_pc' = "check"
    /\ UNCHANGED notDemoVars

\* `if counter >= 50`: yield the final message and break, or loop
DemoCheckStop ==
    /\ demo_pc = "check"
    /\ IF counter >= MAX_STREAM_MESSAGES
          THEN /\ demo_events' = Append(demo_events, final_data_of(counter))
               /\ demo_pc' = "done"
          ELSE /\ demo_pc' = "sleep"
               /\ UNCHANGED demo_events
    /\ UNCHANGED <<counter, notDemoVars>>

\* the client goes away and the transport tears the generator down
DemoDisconnect ==
    /\ demo_pc \in {"sleep", "check"}
    /\ demo_pc' = "cancelled"
    /\ UNCHANGED <<counter, demo_events, notDemoVars>>

\* the generator's own steps, resumed by the transport while connected
DemoSteps ==
    \/ DemoConnect
    \/ DemoTick
    \/ DemoCheckStop

NextDemo ==
    \/ DemoSteps
    \/ DemoDisconnect

InitDemo ==
    /\ api_key = TRUE
    /\ MonitorStart
    /\ LoopStart
    /\ GatherStart
    /\ SessionStart
    /\ ConfigServing
    /\ RemoteStart
    /\ LlmStart
    /\ CredStart
    /\ RouteStart
    /\ HealthStart
    /\ StreamStart
    /\ DemoStart
    /\ AdminStart

SpecDemo == InitDemo /\ [][NextDemo]_vars

FairSpecDemo == SpecDemo /\ WF_vars(DemoSteps)

\* C24: generate_stream_data always terminates; it emits
\* connection_established first, then one update per tick with counter
\* 1, 2, 3, ... (periodic_update when the counter is divisible by 3, otherwise
\* status_update when divisible by 5, otherwise data_update), and right after
\* the update whose counter is 50 one stream_complete with total_messages 50,
\* and stops.
ExpectedDemoEvent(i) ==
    IF i = 1 THEN [type |-> "connection_established"]
    ELSE IF i <= MAX_STREAM_MESSAGES + 1
         THEN [type |-> IF (i - 1) % 3 = 0 THEN "periodic_update"
                        ELSE IF (i - 1) % 5 = 0 THEN "status_update"
                        ELSE "data_update",
               counter |-> i - 1]
    ELSE [type |-> "stream_complete", total_messages |-> MAX_STREAM_MESSAGES]

DemoShape ==
    /\ Len(demo_events) <= MAX_STREAM_MESSAGES + 2
    /\ \A i \in 1..Len(demo_events) : demo_events[i] = ExpectedDemoEvent(i)
    /\ demo_pc = "done" <=> Len(demo_events) = MAX_STREAM_MESSAGES + 2

C24_DemoStreamTerminates ==
    /\ []DemoShape
    /\ <>(demo_pc \in {"done", "cancelled"})

\* the stream ran to its end: 52 payloads, the last one stream_complete
C24_Witness ==
    /\ demo_pc = "done"
    /\ demo_events[Len(demo_events)] = final_data_of(MAX_STREAM_MESSAGES)
    /\ demo_events[16].type = "periodic_update"

(***************************************************************************)
(* The admin router (routers/admin.py): every route makes one call to      *)
(* Convex through call_convex_function and turns failures into HTTP errors.*)
(***************************************************************************)
\* strings whose prefix the code tests, as sequences of characters
Str_testRuns == <<"t", "e", "s", "t", "R", "u", "n", "s">>
Str_flows == <<"f", "l", "o", "w", "s">>
Str_create == <<"c", "r", "e", "a", "t", "e">>
Str_update == <<"u", "p", "d", "a", "t", "e">>
Str_remove == <<"r", "e", "m", "o", "v", "e">>
Str_list == <<"l", "i", "s", "t">>
Str_get == <<"g", "e", "t">>
Str_listByTestRun == Str_list \o <<"B", "y", "T", "e", "s", "t", "R", "u", "n">>
Str_getStats == Str_get \o <<"S", "t", "a", "t", "s">>

\* "<module>:<function>", the path of a Convex function
Path(module, function) == module \o <<":">> \o function

\* the route handlers and the Convex function each one calls
AdminRoutes ==
    [list_test_runs          |-> Path(Str_testRuns, Str_list),
     create_test_run         |-> Path(Str_testRuns, Str_create),
     get_test_run            |-> Path(Str_testRuns, Str_get),
     list_flows_for_test_run |-> Path(Str_flows, Str_listByTestRun),
     create_flow             |-> Path(Str_flows, Str_create),
     get_admin_stats         |-> Path(Str_testRuns, Str_getStats),
     delete_test_run         |-> Path(Str_testRuns, Str_remove),
     delete_flow             |-> Path(Str_flows, Str_remove)]

\* str.startswith
startswith(s, prefix) == Len(s) >= Len(prefix) /\ SubSeq(s, 1, Len(prefix)) = prefix

\* the endpoint call_convex_function posts to
convex_url(function_name) ==
    IF \/ startswith(function_name, Str_create)
       \/ startswith(function_name, Str_update)
       \/ startswith(function_name, Str_remove)
    THEN "/api/mutation"
    ELSE "/api/query"

\* what the POST to Convex may bring: a network error, a 4xx/5xx answer, a
\* 2xx body with an error field, a 2xx body with a value (empty or not)
ConvexAnswers ==
    {"network_error", "http_error", "error_field", "value", "empty_value"}

\* an HTTPException leaving a function, or its normal return
HttpRaise(status_code) == [raised |-> TRUE, status_code |-> status_code, value |-> None]
HttpReturn(value) == [raised |-> FALSE, status_code |-> 200, value |-> value]

\* call_convex_function: the HTTPException(400) is raised inside the try
\* block and HTTPException is an Exception, so `except Exception` catches it
\* and raises HTTPException(500); requests.RequestException (connection
\* error, timeout, raise_for_status) becomes HTTPException(503)
call_convex_function(answer) ==
    IF answer \in {"network_error", "http_error"} THEN HttpRaise(503)
    ELSE IF answer = "error_field" THEN HttpRaise(500)
    ELSE IF answer = "value" THEN HttpReturn("value")
    ELSE HttpReturn(None)

\* the try / except of a route: get_test_run answers 404 for an empty
\* result and re-raises an HTTPException as it is (`except HTTPException:
\* raise`); every other route wraps whatever was raised, an HTTPException
\* included, into HTTPException(500)
route_status(route, called) ==
    IF route = "get_test_run"
    THEN IF called.raised THEN called.status_code
         ELSE IF called.value = None THEN 404 ELSE 200
    ELSE IF called.raised THEN 500 ELSE 200

\* one admin request, from the route to its response
AdminRequest ==
    /\ Len(admin_log) < MaxAdminCalls
    /\ \E route \in DOMAIN AdminRoutes, answer \in ConvexAnswers :
         LET function_name == AdminRoutes[route]
             called == call_convex_function(answer)
         IN  admin_log' = Append(admin_log,
                 [route         |-> route,
                  function_name |-> function_name,
                  url           |-> convex_url(function_name),
                  answer        |-> answer,
                  status_code   |-> route_status(route, called)])
    /\ UNCHANGED notAdminVars

NextAdmin == AdminRequest

InitAdmin ==
    /\ api_key = TRUE
    /\ MonitorStart
    /\ LoopStart
    /\ GatherStart
    /\ SessionStart
    /\ ConfigServing
    /\ RemoteStart
    /\ LlmStart
    /\ CredStart
    /\ RouteStart
    /\ HealthStart
    /\ StreamStart
    /\ DemoStart
    /\ AdminStart

SpecAdmin == InitAdmin /\ [][NextAdmin]_vars

\* C25: every mutating function of the admin router (testRuns:create,
\* flows:create, testRuns:remove, flows:remove) is posted to /api/mutation
\* and every read function (testRuns:list, testRuns:get, flows:listByTestRun,
\* testRuns:getStats) to /api/query.
MutatingRoutes == {"create_test_run", "create_flow", "delete_test_run", "delete_flow"}

C25_MutationsToMutationEndpoint ==
    \A i \in 1..Len(admin_log) :
        admin_log[i].url = IF admin_log[i].route \in MutatingRoutes
                           THEN "/api/mutation" ELSE "/api/query"

\* C26: a Convex body with an error field reaches the client as HTTP 400, a
\* failed Convex call (network error or non-2xx) as HTTP 503, and only other
\* unexpected failures as HTTP 500.
C26_ErrorStatusPreserved ==
    \A i \in 1..Len(admin_log) :
        LET r == admin_log[i] IN
        /\ r.answer = "error_field" => r.status_code = 400
        /\ r.answer \in {"network_error", "http_error"} => r.status_code = 503
        /\ r.status_code = 500 =>
              r.answer \notin {"error_field", "network_error", "http_error"}

(***************************************************************************)
(* Task stream monitor: the last-seen step count                           *)
(***************************************************************************)
\* the step events among the first n events
StepEventsIn(n) == {i \in 1..n : events[i].type = "step"}

\* the largest step count a successful poll before poll k has shown
HighestSeenBefore(k) ==
    LET counts == {Len(polls[i].steps) : i \in {j \in 1..(k - 1) : polls[j].ok}}
    IN  IF counts = {} THEN 0 ELSE CHOOSE c \in counts : \A d \in counts : d <= c

\* the current tick's poll brought nothing beyond what was seen
NothingNew ==
    /\ polls # <<>>
    /\ LastPoll.ok
    /\ Len(LastPoll.steps) <= HighestSeenBefore(Len(polls))

\* C27: the last-seen step count never decreases during a stream; a poll
\* whose step list is not longer than the last-seen count emits no step event
\* on that tick and leaves the count unchanged; a step is only ever emitted
\* from a position beyond the highest count seen so far, and no position of
\* the provider's list is emitted twice.
C27_CountNeverDecreases ==
    /\ [](NothingNew =>
            /\ StepEventsIn(Len(events)) \subseteq 1..tick_start
            /\ previous_steps_count = HighestSeenBefore(Len(polls)))
    /\ [](Cardinality(StepEventsIn(Len(events))) = previous_steps_count + step_idx)
    /\ [][/\ previous_steps_count' >= previous_steps_count
          /\ (Len(events') > Len(events) /\ events'[Len(events')].type = "step") =>
                LET position == Cardinality(StepEventsIn(Len(events))) + 1 IN
                /\ position > HighestSeenBefore(Len(polls))
                /\ position <= Len(LastPoll.steps)
                /\ events'[Len(events')] = step_data(LastPoll.steps[position])]_vars

\* a list of one step, then an empty list, then a list of two: the third
\* tick emits only the step at position 2
C27_Witness ==
    /\ Len(polls) = 3
    /\ polls[1].ok /\ Len(polls[1].steps) = 1
    /\ polls[2].ok /\ Len(polls[2].steps) = 0
    /\ polls[3].ok /\ Len(polls[3].steps) = 2
    /\ previous_steps_count = 2
    /\ Cardinality(StepEventsIn(Len(events))) = 2
    /\ pc = "status"

(***************************************************************************)
(* BrowserManager: the life of a session and of its log                    *)
(***************************************************************************)
\* handler p has just finished the call `op` in this step
Finishes(p, op) == proc[p].pc # "returned" /\ proc'[p].pc = "returned" /\ proc'[p].op = op

ClosedEntry == LogEntry("session_closed", "success")

\* C28: every id of the active-session map has a log list; a successful
\* close_session removes the id from the active map and keeps its log, so
\* that get_session_status then reports not_found while get_session_logs
\* returns the whole log, and its total_actions counts the session_closed
\* entry; when the agent's close raises, the session stays in the active map
\* and no session_closed entry is logged.
C28_CloseKeepsLog ==
    /\ [](DOMAIN active_agents \subseteq DOMAIN session_logs)
    /\ [][\A p \in Procs, sid \in SessionIds :
            (Finishes(p, "close") /\ proc'[p].sid = sid) =>
                LET res == proc'[p].result
                IN  /\ res.kind = "closed" =>
                          /\ sid \notin DOMAIN active_agents'
                          /\ get_session_status(sid)'.status = "not_found"
                          /\ get_session_logs(sid)' = Append(session_logs[sid], ClosedEntry)
                          /\ res.total_actions = Len(session_logs[sid]) + 1
                    /\ (res.kind = "RuntimeError" /\ res.cause = "Agent") =>
                          /\ active_agents' = active_agents
                          /\ session_logs' = session_logs]_vars

\* a close that returned: the id is gone from the active map, its log of
\* three entries is still served and total_actions is 3
C28_Witness ==
    \E p \in Procs :
        /\ proc[p].pc = "returned"
        /\ proc[p].op = "close"
        /\ proc[p].result.kind = "closed"
        /\ proc[p].result.total_actions = 3
        /\ ~IsActive(proc[p].sid)
        /\ Len(get_session_logs(proc[p].sid)) = 3

\* C29: once a session's log holds a session_closed entry, no navigate,
\* click, type or page-info entry is appended after it until the id is
\* created again, whatever the interleaving of handlers on that id.
C29_NothingAfterClosed ==
    \A sid \in DOMAIN session_logs :
        \A i, j \in 1..Len(session_logs[sid]) :
            (i < j /\ session_logs[sid][i].action = "session_closed") =>
                session_logs[sid][j].action \notin RunOps \cup {"get_page_info"}

\* C30: create_session with an id that is already active does not fail for
\* that reason: it stores a new agent in place of the old one and resets the
\* id's log to a single session_created entry, without closing the previous
\* agent or keeping an earlier entry; the number of active sessions stays.
C30_CreateReplaces ==
    [][\A p \in Procs, sid \in SessionIds :
          (Finishes(p, "create") /\ proc'[p].sid = sid /\ IsActive(sid)) =>
              LET res == proc'[p].result
              IN  /\ res.kind # "created" => (res.kind = "RuntimeError" /\ res.cause = "Agent")
                  /\ res.kind = "created" =>
                        /\ active_agents'[sid] # active_agents[sid]
                        /\ active_agents'[sid] \notin closed_agents'
                        /\ session_logs'[sid] = <<LogEntry("session_created", "success")>>
                        /\ closed_agents' = closed_agents
                        /\ active_agents[sid] \notin closed_agents'
                        /\ Cardinality(DOMAIN active_agents')
                              = Cardinality(DOMAIN active_agents)]_vars

\* a second create on an id that was active: agent 2 is stored,
\* agent 1 was never closed, the log is back to one entry
C30_Witness ==
    /\ \E p \in Procs : proc[p].pc = "returned" /\ proc[p].op = "create"
                        /\ proc[p].result.kind = "created" /\ proc[p].agent = 2
    /\ IsActive("s1")
    /\ active_agents["s1"] = 2
    /\ 1 \notin closed_agents
    /\ session_logs["s1"] = <<LogEntry("session_created", "success")>>

====
